---- MODULE Spec2Model ----
(***************************************************************************)
(* Enquiry notification engine of branded-enquiry-app.                     *)
(*                                                                         *)
(*   app/services/enquiry-email.server.ts  (Mailgun engine, lines 444-1108)*)
(*   app/routes/proxy.enquiry.ts           (storefront intake action)      *)
(*                                                                         *)
(* JavaScript strings that the code parses (the staff list, the customer   *)
(* e-mail) are sequences of one-character strings.  Strings the code only  *)
(* copies (error texts, provider ids, subjects) are atomic TLA+ strings,   *)
(* and the JavaScript null of such a field is the reserved value Null.     *)
(***************************************************************************)
EXTENDS Integers, Sequences, FiniteSets, TLC

VARIABLES
    env,        \* process.env: the Mailgun settings and ENQUIRY_STAFF_EMAIL
    req,        \* per request: position in the handler and its local variables
    enquiries,  \* table Enquiry, by id
    emailLogs,  \* table EnquiryEmailLog, the rows of each enquiry in insertion order
    sumIn,      \* argument of a direct call of summarizeAttempts
    sumOut,     \* its result
    dash        \* per dashboard request: position in the update-status action, locals

vars == <<env, req, enquiries, emailLogs, sumIn, sumOut, dash>>

(***************************************************************************)
(* Bounds of the model.                                                    *)
(***************************************************************************)
MaxReq == 2         \* intake requests of one behaviour (they may overlap)
MaxStaffLen == 3    \* characters of ENQUIRY_STAFF_EMAIL in a direct dispatch
MaxEmailLen == 2    \* characters of enquiry.email in a direct dispatch
MaxAttempts == 3    \* length of the list handed to summarizeAttempts directly
MaxOps == 2         \* requests (intake and dashboard) of one behaviour with a dashboard

Null == "<null>"

ReqIds == 1..MaxReq
DashIds == 1..MaxOps

RECURSIVE SeqsUpTo(_, _)
\* All sequences over S of length at most n.
SeqsUpTo(S, n) ==
    IF n = 0 THEN {<<>>}
    ELSE LET shorter == SeqsUpTo(S, n - 1)
         IN  shorter \cup {Append(s, c) : s \in {t \in shorter : Len(t) = n - 1}, c \in S}

(***************************************************************************)
(* String primitives: String.prototype.trim and String.prototype.split(",")*)
(***************************************************************************)
IsWhitespace(c) == c = " "

RECURSIVE TrimStart(_)
TrimStart(s) ==
    IF s = <<>> THEN <<>>
    ELSE IF IsWhitespace(Head(s)) THEN TrimStart(Tail(s)) ELSE s

RECURSIVE TrimEnd(_)
TrimEnd(s) ==
    IF s = <<>> THEN <<>>
    ELSE IF IsWhitespace(s[Len(s)]) THEN TrimEnd(SubSeq(s, 1, Len(s) - 1)) ELSE s

Trim(s) == TrimEnd(TrimStart(s))

RECURSIVE SplitComma(_)
\* "a,b".split(",") = ["a","b"]; "".split(",") = [""]; "a,".split(",") = ["a",""].
SplitComma(s) ==
    IF \A i \in 1..Len(s) : s[i] # ","
    THEN <<s>>
    ELSE LET i == CHOOSE j \in 1..Len(s) :
                      s[j] = "," /\ \A k \in 1..(j - 1) : s[k] # ","
         IN  <<SubSeq(s, 1, i - 1)>> \o SplitComma(SubSeq(s, i + 1, Len(s)))

RECURSIVE FilterNonEmpty(_)
\* Array.prototype.filter(Boolean) on an array of strings: "" is the only falsy one.
FilterNonEmpty(xs) ==
    IF xs = <<>> THEN <<>>
    ELSE IF Head(xs) = <<>> THEN FilterNonEmpty(Tail(xs))
         ELSE <<Head(xs)>> \o FilterNonEmpty(Tail(xs))

RECURSIVE MapTrimStartOnly(_)
\* Variant: only the leading white space of an entry is removed
MapTrimStartOnly(xs) ==
    IF xs = <<>> THEN <<>>
    ELSE <<TrimStart(Head(xs))>> \o MapTrimStartOnly(Tail(xs))

RECURSIVE MapTrim(_)
\* Array.prototype.map((entry) => entry.trim())
MapTrim(xs) ==
    IF xs = <<>> THEN <<>> ELSE <<Trim(Head(xs))>> \o MapTrim(Tail(xs))

(***************************************************************************)
(* Enumerations (enquiry-email.server.ts 472-494).                         *)
(***************************************************************************)
STAFF == "STAFF"
CUSTOMER == "CUSTOMER"
OTHER_RECIPIENT == "OTHER"  \* OTHER is a reserved word of TLA+
SUCCESS == "SUCCESS"
FAILURE == "FAILURE"
PENDING == "PENDING"
SENT == "SENT"
PARTIAL == "PARTIAL"
FAILED == "FAILED"

NoRecipientsError == "No email recipients configured for enquiry notifications"
ClientNotConfigured == "Mailgun client is not configured."
MissingSender == "Missing Mailgun sender address."
IncompleteConfiguration == "Mailer configuration is incomplete."
UnknownSendError == "Unknown error sending email"

(***************************************************************************)
(* summarizeAttempts (enquiry-email.server.ts 854-893).                    *)
(***************************************************************************)
RECURSIVE FilterStatus(_, _)
\* attempts.filter((entry) => entry.status === status)
FilterStatus(attempts, status) ==
    IF attempts = <<>> THEN <<>>
    ELSE IF Head(attempts).status = status
         THEN <<Head(attempts)>> \o FilterStatus(Tail(attempts), status)
         ELSE FilterStatus(Tail(attempts), status)

\* Variant: failures.at(0) instead of failures.at(-1)
FirstFailureMessage(failures) ==
    IF failures = <<>> THEN Null ELSE failures[1].errorMessage

\* failures.at(-1)?.errorMessage ?? null
LastFailureMessage(failures) ==
    IF failures = <<>> THEN Null ELSE failures[Len(failures)].errorMessage

\* Variant: the PARTIAL test reads successes.length >= 0
summarizeAttemptsPartialAlways(attempts) ==
    IF Len(attempts) = 0
    THEN [notificationState |-> FAILED, lastError |-> NoRecipientsError]
    ELSE LET failures == FilterStatus(attempts, FAILURE)
             successes == FilterStatus(attempts, SUCCESS)
             lastFailure == LastFailureMessage(failures)
         IN  IF Len(failures) = 0
             THEN [notificationState |-> SENT, lastError |-> Null]
             ELSE IF Len(successes) >= 0
                  THEN [notificationState |-> PARTIAL, lastError |-> lastFailure]
                  ELSE [notificationState |-> FAILED, lastError |-> lastFailure]

\* Variant: the PARTIAL test comes before the zero-FAILURE test
summarizeAttemptsPartialFirst(attempts) ==
    IF Len(attempts) = 0
    THEN [notificationState |-> FAILED, lastError |-> NoRecipientsError]
    ELSE LET failures == FilterStatus(attempts, FAILURE)
             successes == FilterStatus(attempts, SUCCESS)
             lastFailure == LastFailureMessage(failures)
         IN  IF Len(successes) > 0
             THEN [notificationState |-> PARTIAL, lastError |-> lastFailure]
             ELSE IF Len(failures) = 0
                  THEN [notificationState |-> SENT, lastError |-> Null]
                  ELSE [notificationState |-> FAILED, lastError |-> lastFailure]

\* Variant: no rule for the empty list
summarizeAttemptsNoEmptyRule(attempts) ==
    LET failures == FilterStatus(attempts, FAILURE)
        successes == FilterStatus(attempts, SUCCESS)
        lastFailure == LastFailureMessage(failures)
    IN  IF Len(failures) = 0
        THEN [notificationState |-> SENT, lastError |-> Null]
        ELSE IF Len(successes) > 0
             THEN [notificationState |-> PARTIAL, lastError |-> lastFailure]
             ELSE [notificationState |-> FAILED, lastError |-> lastFailure]

summarizeAttempts(attempts) ==
    IF Len(attempts) = 0
    THEN [notificationState |-> FAILED, lastError |-> NoRecipientsError]
    ELSE LET failures == FilterStatus(attempts, FAILURE)
             successes == FilterStatus(attempts, SUCCESS)
             lastFailure == LastFailureMessage(failures)
         IN  IF Len(failures) = 0
             THEN [notificationState |-> SENT, lastError |-> Null]
             ELSE IF Len(successes) > 0
                  THEN [notificationState |-> PARTIAL, lastError |-> lastFailure]
                  ELSE [notificationState |-> FAILED, lastError |-> lastFailure]

(***************************************************************************)
(* process.env.  A variable is unset (undefined) or holds a string.        *)
(***************************************************************************)
Unset == [set |-> FALSE, val |-> <<>>]
EnvString(s) == [set |-> TRUE, val |-> s]

\* JavaScript truthiness of string | undefined: undefined and "" are falsy.
Truthy(v) == v.set /\ v.val # <<>>

\* getMailer (enquiry-email.server.ts 520-541).  null is the unconfigured record.
NoMailer == [configured |-> FALSE, domain |-> <<>>, fromEmail |-> <<>>]

\* Variant: MAILGUN_DOMAIN is not checked
getMailerDomainUnchecked(e) ==
    IF ~Truthy(e.MAILGUN_API_KEY) \/ ~Truthy(e.MAILGUN_FROM_EMAIL)
    THEN NoMailer
    ELSE [configured |-> TRUE, domain |-> e.MAILGUN_DOMAIN.val,
          fromEmail |-> e.MAILGUN_FROM_EMAIL.val]

getMailer(e) ==
    IF ~Truthy(e.MAILGUN_API_KEY) \/ ~Truthy(e.MAILGUN_DOMAIN) \/ ~Truthy(e.MAILGUN_FROM_EMAIL)
    THEN NoMailer
    ELSE [configured |-> TRUE, domain |-> e.MAILGUN_DOMAIN.val,
          fromEmail |-> e.MAILGUN_FROM_EMAIL.val]

RECURSIVE Unique(_)
\* xs without the later occurrences of an element
Unique(xs) ==
    IF xs = <<>> THEN <<>>
    ELSE LET front == Unique(SubSeq(xs, 1, Len(xs) - 1))
             last == xs[Len(xs)]
         IN  IF \E i \in 1..Len(front) : front[i] = last THEN front
             ELSE Append(front, last)

\* Variant: an address listed twice is kept once
getStaffRecipientsUnique(e) ==
    IF ~Truthy(e.ENQUIRY_STAFF_EMAIL)
    THEN <<>>
    ELSE Unique(FilterNonEmpty(MapTrim(SplitComma(e.ENQUIRY_STAFF_EMAIL.val))))

\* getStaffRecipients (enquiry-email.server.ts 844-852)
getStaffRecipients(e) ==
    IF ~Truthy(e.ENQUIRY_STAFF_EMAIL)
    THEN <<>>
    ELSE FilterNonEmpty(MapTrim(SplitComma(e.ENQUIRY_STAFF_EMAIL.val)))

(***************************************************************************)
(* Message builder (external collaborator): a body is identified by its    *)
(* format, the enquiry it renders and the confirmation copy it carries.    *)
(***************************************************************************)
staffMessage == "A new FREE visual enquiry has been submitted. Please review the details below and follow up with the customer."
customerMessage == "This enquiry has been sent to our sales team. We will get back to you with a quotation asap."

buildSubject(payload) == <<"[Free Visual] ", payload.name>>
buildTextEmailBody(payload, message) ==
    [format |-> "text", name |-> payload.name, message |-> message]
buildHtmlEmailBody(payload, message) ==
    [format |-> "html", name |-> payload.name, message |-> message]

(***************************************************************************)
(* Recipient resolution inside sendEnquiryEmails (950, 969-1008).          *)
(* customerRecipient: null is the empty sequence (trim() || null makes ""  *)
(* and null the same falsy value, and only its truthiness is read).        *)
(***************************************************************************)
CustomerRecipient(enquiry) == Trim(enquiry.email)

RECURSIVE StaffEntries(_, _)
\* for (const email of staffRecipients) intendedRecipients.push({... STAFF ...})
StaffEntries(staffRecipients, enquiry) ==
    IF staffRecipients = <<>> THEN <<>>
    ELSE <<[email |-> Head(staffRecipients),
            recipientType |-> STAFF,
            textBody |-> buildTextEmailBody(enquiry, staffMessage),
            htmlBody |-> buildHtmlEmailBody(enquiry, staffMessage)]>>
         \o StaffEntries(Tail(staffRecipients), enquiry)

CustomerEntries(customerRecipient, enquiry) ==
    IF customerRecipient # <<>>
    THEN <<[email |-> customerRecipient,
            recipientType |-> CUSTOMER,
            textBody |-> buildTextEmailBody(enquiry, customerMessage),
            htmlBody |-> buildHtmlEmailBody(enquiry, customerMessage)]>>
    ELSE <<>>

\* Variant: a customer address that is also a staff address gets no entry
IntendedRecipientsCustomerUnlisted(e, enquiry) ==
    LET staffRecipients == getStaffRecipients(e)
        customerRecipient == CustomerRecipient(enquiry)
    IN  StaffEntries(staffRecipients, enquiry)
            \o (IF \E i \in 1..Len(staffRecipients) : staffRecipients[i] = customerRecipient
                THEN <<>>
                ELSE CustomerEntries(customerRecipient, enquiry))

\* Variant: the copy is chosen by address, so a customer whose address is also a
\* staff address is sent the staff copy
IntendedRecipientsCopyByAddress(e, enquiry) ==
    LET staffRecipients == getStaffRecipients(e)
        customerRecipient == CustomerRecipient(enquiry)
        isStaff == \E i \in 1..Len(staffRecipients) : staffRecipients[i] = customerRecipient
    IN  StaffEntries(staffRecipients, enquiry)
            \o (IF customerRecipient = <<>> THEN <<>>
                ELSE <<[email |-> customerRecipient,
                        recipientType |-> CUSTOMER,
                        textBody |-> buildTextEmailBody(enquiry,
                                        IF isStaff THEN staffMessage ELSE customerMessage),
                        htmlBody |-> buildHtmlEmailBody(enquiry,
                                        IF isStaff THEN staffMessage ELSE customerMessage)]>>)

IntendedRecipients(e, enquiry) ==
    StaffEntries(getStaffRecipients(e), enquiry)
        \o CustomerEntries(CustomerRecipient(enquiry), enquiry)

(***************************************************************************)
(* What mailer.client.messages.create settles with: a response it resolves *)
(* to, or a value it rejects with.  One record shape for both.             *)
(***************************************************************************)
Resolved(type, id, message) ==
    [settle |-> "resolve", type |-> type, id |-> id, message |-> message,
     name |-> Null, status |-> Null, code |-> Null]
Rejected(type, message, name, status, code) ==
    [settle |-> "reject", type |-> type, id |-> Null, message |-> message,
     name |-> name, status |-> status, code |-> code]
InFlight ==
    [settle |-> "pending", type |-> Null, id |-> Null, message |-> Null,
     name |-> Null, status |-> Null, code |-> Null]

Responses ==
    { Resolved("object", "<id-1>", "Queued. Thank you."),   \* { id, message }
      Resolved("object", Null, Null),                        \* {} : no id property
      Resolved("undefined", Null, Null) }                    \* not an object

Rejections ==
    { Rejected("Error", "e1", "Error", "401", Null),         \* Error with status
      Rejected("Error", "e2", Null, Null, "ETIMEDOUT"),      \* Error with code
      Rejected("object", "m1", Null, "400", Null),           \* { message, status }
      Rejected("string", "s1", Null, Null, Null) }           \* throw "s1"

Settlements == Responses \cup Rejections

\* typeof x === "object" (an Error is an object)
IsObject(x) == x.type \in {"object", "Error"}

NullMetadata == [isNull |-> TRUE]
MissingMailerMetadata == [reason |-> "missing_mailer_configuration"]

\* buildErrorMetadata (895-915); details is never set by the values modelled
buildErrorMetadata(error) ==
    IF IsObject(error)
    THEN [name |-> IF error.name # Null THEN error.name ELSE "Error",
          status |-> error.status,
          code |-> error.code,
          details |-> Null]
    ELSE NullMetadata

\* buildSuccessMetadata (917-926)
buildSuccessMetadata(result) ==
    IF IsObject(result) THEN [message |-> result.message] ELSE NullMetadata

\* normalizeErrorMessage (928-938)
normalizeErrorMessage(error) ==
    IF error.type = "Error" THEN error.message
    ELSE IF error.type = "string" THEN error.message
    ELSE UnknownSendError

\* response && typeof response === "object" && "id" in response ? response.id : null
ProviderId(response) ==
    IF IsObject(response) /\ response.id # Null THEN response.id ELSE Null

(***************************************************************************)
(* sendEnquiryEmails (enquiry-email.server.ts 940-1108).                   *)
(*                                                                         *)
(* A request record holds the locals of one call.  pc:                     *)
(*   "idle"      not started                                               *)
(*   "created"   intake only: the Enquiry row exists, dispatch not started *)
(*   "awaiting"  suspended in await mailer.client.messages.create(...)     *)
(*   "resume"    sendToRecipient has returned, the for-loop continuation   *)
(*               is queued (await sendToRecipient(recipient))              *)
(*   "returned"  sendEnquiryEmails has returned (or, in the intake, has    *)
(*               thrown into the catch block of the action)                *)
(*   "threw"     a direct call has ended by throwing; thrown is the value  *)
(*   "done"      intake only: the response has been sent                   *)
(* calls is the history of the transport calls issued, each with what it   *)
(* settled with; the code does not read it.  transaction is what became of *)
(* the intake's prisma.$transaction: "none" (not issued), "committed" or   *)
(* "rejected".                                                             *)
(***************************************************************************)
\* A Date is identified by the request whose new Date() produced it and by the
\* moment it was taken: how many transport calls the request had issued and how
\* many attempts it had recorded when new Date() ran.
NoDate == [set |-> FALSE, request |-> 0, calls |-> 0, attempts |-> 0]
DateOf(r) ==
    [set |-> TRUE, request |-> r,
     calls |-> Len(req[r].calls), attempts |-> Len(req[r].attempts)]

\* emailError of the intake action: null, or what sendEnquiryEmails threw
NoError == [thrown |-> FALSE, isError |-> FALSE, message |-> Null]

NoOutcome == [returned |-> FALSE, notificationState |-> Null, lastError |-> Null]
NoEnquiry == [name |-> Null, email |-> <<>>]

\* A dashboard request before it arrives: no session, no form value, no answer
NoResponse == [status |-> 0]
IdleDash ==
    [pc |-> "idle",
     shop |-> Null,
     enquiryId |-> 0,
     statusValue |-> Null,
     statusNotes |-> Null,
     existing |-> [status |-> Null],
     response |-> NoResponse]

IdleRequest ==
    [pc |-> "idle",
     enquiry |-> NoEnquiry,
     mailer |-> NoMailer,
     fromAddress |-> <<>>,
     misconfigurationError |-> Null,
     subject |-> <<>>,
     intendedRecipients |-> <<>>,
     idx |-> 0,
     attempts |-> <<>>,
     calls |-> <<>>,
     outcome |-> NoOutcome,
     enquiryId |-> 0,
     attemptedAt |-> NoDate,
     emailError |-> NoError,
     thrown |-> NoError,
     transaction |-> "none",
     response |-> Null]

Attempt(recipient, recipientType, status, subject, errorMessage, providerId, metadata) ==
    [recipient |-> recipient, recipientType |-> recipientType, status |-> status,
     subject |-> subject, errorMessage |-> errorMessage, providerId |-> providerId,
     metadata |-> metadata]

NotApplicable == <<"n", "/", "a">>

\* Variant: the summary is computed before the last attempt has been recorded
ReturnOutcomeBeforeLastAttempt(rq) ==
    LET summary == summarizeAttempts(SubSeq(rq.attempts, 1, Len(rq.attempts) - 1))
    IN  [rq EXCEPT !.pc = "returned",
                   !.outcome = [returned |-> TRUE,
                                notificationState |-> summary.notificationState,
                                lastError |-> summary.lastError]]

\* return { attempts, notificationState: summary.notificationState, lastError: ... }
ReturnOutcome(rq) ==
    LET summary == summarizeAttempts(rq.attempts)
    IN  [rq EXCEPT !.pc = "returned",
                   !.outcome = [returned |-> TRUE,
                                notificationState |-> summary.notificationState,
                                lastError |-> summary.lastError]]

\* 1032-1036
MisconfigurationError(mailer, fromAddress) ==
    IF ~mailer.configured THEN ClientNotConfigured
    ELSE IF fromAddress = <<>> THEN MissingSender
    ELSE Null

\* sendToRecipient (1040-1067) for the recipient at rq.idx, up to its first
\* suspension: the misconfiguration branch pushes and returns, the other issues
\* the transport call.
sendToRecipient(rq) ==
    LET recipient == rq.intendedRecipients[rq.idx]
    IN  IF rq.misconfigurationError # Null \/ ~rq.mailer.configured \/ rq.fromAddress = <<>>
        THEN [rq EXCEPT
                !.attempts = Append(@,
                    Attempt(recipient.email, recipient.recipientType, FAILURE, rq.subject,
                            IF rq.misconfigurationError # Null
                            THEN rq.misconfigurationError
                            ELSE IncompleteConfiguration,
                            Null, MissingMailerMetadata)),
                !.pc = "resume"]
        ELSE [rq EXCEPT
                !.calls = Append(@,
                    [domain |-> rq.mailer.domain,
                     to |-> recipient.email,
                     from |-> rq.fromAddress,
                     subject |-> rq.subject,
                     text |-> recipient.textBody,
                     html |-> recipient.htmlBody,
                     result |-> InFlight]),
                !.pc = "awaiting"]

\* Variant: attempts.unshift(...) instead of attempts.push(...)
sendToRecipientSettledUnshift(rq, out) ==
    LET recipient == rq.intendedRecipients[rq.idx]
        attempt ==
            IF out.settle = "resolve"
            THEN Attempt(recipient.email, recipient.recipientType, SUCCESS, rq.subject,
                         Null, ProviderId(out), buildSuccessMetadata(out))
            ELSE Attempt(recipient.email, recipient.recipientType, FAILURE, rq.subject,
                         normalizeErrorMessage(out), Null, buildErrorMetadata(out))
    IN  [rq EXCEPT !.attempts = <<attempt>> \o @,
                   !.calls[Len(rq.calls)].result = out,
                   !.pc = "resume"]

\* Variant: a response that carries no id is recorded as a failure
sendToRecipientSettledIdRequired(rq, out) ==
    LET recipient == rq.intendedRecipients[rq.idx]
        attempt ==
            IF out.settle = "resolve" /\ ProviderId(out) # Null
            THEN Attempt(recipient.email, recipient.recipientType, SUCCESS, rq.subject,
                         Null, ProviderId(out), buildSuccessMetadata(out))
            ELSE Attempt(recipient.email, recipient.recipientType, FAILURE, rq.subject,
                         normalizeErrorMessage(out), Null, buildErrorMetadata(out))
    IN  [rq EXCEPT !.attempts = Append(@, attempt),
                   !.calls[Len(rq.calls)].result = out,
                   !.pc = "resume"]

\* Variant: the catch block records the failure without a message
sendToRecipientSettledNoMessage(rq, out) ==
    LET recipient == rq.intendedRecipients[rq.idx]
        attempt ==
            IF out.settle = "resolve"
            THEN Attempt(recipient.email, recipient.recipientType, SUCCESS, rq.subject,
                         Null, ProviderId(out), buildSuccessMetadata(out))
            ELSE Attempt(recipient.email, recipient.recipientType, FAILURE, rq.subject,
                         Null, Null, buildErrorMetadata(out))
    IN  [rq EXCEPT !.attempts = Append(@, attempt),
                   !.calls[Len(rq.calls)].result = out,
                   !.pc = "resume"]

\* sendToRecipient (1069-1093) once the transport call has settled with out
sendToRecipientSettled(rq, out) ==
    LET recipient == rq.intendedRecipients[rq.idx]
        attempt ==
            IF out.settle = "resolve"
            THEN Attempt(recipient.email, recipient.recipientType, SUCCESS, rq.subject,
                         Null, ProviderId(out), buildSuccessMetadata(out))
            ELSE Attempt(recipient.email, recipient.recipientType, FAILURE, rq.subject,
                         normalizeErrorMessage(out), Null, buildErrorMetadata(out))
    IN  [rq EXCEPT !.attempts = Append(@, attempt),
                   !.calls[Len(rq.calls)].result = out,
                   !.pc = "resume"]

\* Variant: a failed send is sent once more before the loop moves on
sendEnquiryEmailsResumeRetry(rq) ==
    IF /\ Len(rq.attempts) = rq.idx
       /\ rq.attempts[Len(rq.attempts)].status = FAILURE
       /\ rq.calls # <<>>
    THEN sendToRecipient(rq)
    ELSE IF rq.idx + 1 <= Len(rq.intendedRecipients)
         THEN sendToRecipient([rq EXCEPT !.idx = rq.idx + 1])
         ELSE ReturnOutcome([rq EXCEPT !.idx = rq.idx + 1])

\* Variant: the loop stops at the first failed send
sendEnquiryEmailsResumeAbort(rq) ==
    IF /\ rq.idx + 1 <= Len(rq.intendedRecipients)
       /\ rq.attempts[Len(rq.attempts)].status = SUCCESS
    THEN sendToRecipient([rq EXCEPT !.idx = rq.idx + 1])
    ELSE ReturnOutcome([rq EXCEPT !.idx = rq.idx + 1])

\* Variant: after the last recipient the function waits for the first again
\* instead of returning
sendEnquiryEmailsResumeNoReturn(rq) ==
    IF rq.idx + 1 <= Len(rq.intendedRecipients)
    THEN sendToRecipient([rq EXCEPT !.idx = rq.idx + 1])
    ELSE rq

\* for (const recipient of intendedRecipients) await sendToRecipient(recipient);
\* then 1101-1107.  The continuation after an iteration's await.
sendEnquiryEmailsResume(rq) ==
    IF rq.idx + 1 <= Len(rq.intendedRecipients)
    THEN sendToRecipient([rq EXCEPT !.idx = rq.idx + 1])
    ELSE ReturnOutcome([rq EXCEPT !.idx = rq.idx + 1])

\* Variant: no branch for the empty recipient list (1010-1030 missing)
sendEnquiryEmailsNoEmptyBranch(e, enquiry, rq) ==
    LET mailer == getMailer(e)
        fromAddress == IF mailer.configured THEN mailer.fromEmail ELSE <<>>
        subject == buildSubject(enquiry)
        intendedRecipients == IntendedRecipients(e, enquiry)
        entered == [rq EXCEPT !.enquiry = enquiry,
                              !.mailer = mailer,
                              !.fromAddress = fromAddress,
                              !.subject = subject,
                              !.intendedRecipients = intendedRecipients,
                              !.misconfigurationError =
                                    MisconfigurationError(mailer, fromAddress),
                              !.attempts = <<>>]
    IN  IF Len(intendedRecipients) = 0
        THEN ReturnOutcome(entered)
        ELSE sendToRecipient([entered EXCEPT !.idx = 1])

\* sendEnquiryEmails from its call up to its first suspension (947-1098)
sendEnquiryEmails(e, enquiry, rq) ==
    LET mailer == getMailer(e)
        fromAddress == IF mailer.configured THEN mailer.fromEmail ELSE <<>>
        subject == buildSubject(enquiry)
        intendedRecipients == IntendedRecipients(e, enquiry)
        entered == [rq EXCEPT !.enquiry = enquiry,
                              !.mailer = mailer,
                              !.fromAddress = fromAddress,
                              !.subject = subject,
                              !.intendedRecipients = intendedRecipients]
    IN  IF Len(intendedRecipients) = 0
        THEN ReturnOutcome([entered EXCEPT
                !.attempts = <<Attempt(NotApplicable, OTHER_RECIPIENT, FAILURE, subject,
                                       NoRecipientsError, Null, NullMetadata)>>])
        ELSE sendToRecipient([entered EXCEPT
                !.misconfigurationError = MisconfigurationError(mailer, fromAddress),
                !.attempts = <<>>,
                !.idx = 1])

(***************************************************************************)
(* Input sets.                                                             *)
(***************************************************************************)
StaffChars == {"a", "b", ",", " "}
EmailChars == {"a", " "}
Names == {"Ann"}

MailerSettings == {Unset, EnvString(<<"k">>)}

\* Every process.env of a direct dispatch
DispatchEnvs ==
    [MAILGUN_API_KEY : MailerSettings,
     MAILGUN_DOMAIN : MailerSettings,
     MAILGUN_FROM_EMAIL : MailerSettings,
     ENQUIRY_STAFF_EMAIL :
        {Unset} \cup {EnvString(s) : s \in SeqsUpTo(StaffChars, MaxStaffLen)}]

DispatchEmails == SeqsUpTo(EmailChars, MaxEmailLen)

(***************************************************************************)
(* Actions shared by the specifications.                                   *)
(***************************************************************************)
\* Variant: the attempts list is shared by the calls in progress
TransportSettlesShared(r, out) ==
    /\ req[r].pc = "awaiting"
    /\ LET settled == sendToRecipientSettled(req[r], out)
           attempt == settled.attempts[Len(settled.attempts)]
       IN  req' = [q \in ReqIds |->
                      IF q = r THEN settled
                      ELSE IF req[q].pc \in {"awaiting", "resume"}
                           THEN [req[q] EXCEPT !.attempts = Append(@, attempt)]
                           ELSE req[q]]
    /\ UNCHANGED <<env, enquiries, emailLogs, sumIn, sumOut, dash>>

\* The transport call of request r settles (resolves or rejects) with out.
TransportSettles(r, out) ==
    /\ req[r].pc = "awaiting"
    /\ req' = [req EXCEPT ![r] = sendToRecipientSettled(req[r], out)]
    /\ UNCHANGED <<env, enquiries, emailLogs, sumIn, sumOut, dash>>

\* The loop of request r continues after an iteration.
Continue(r) ==
    /\ req[r].pc = "resume"
    /\ req' = [req EXCEPT ![r] = sendEnquiryEmailsResume(req[r])]
    /\ UNCHANGED <<env, enquiries, emailLogs, sumIn, sumOut, dash>>

(***************************************************************************)
(* DispatchSpec: one direct call sendEnquiryEmails({ enquiry, attachment })*)
(* under every environment and every customer e-mail of the bounds.        *)
(***************************************************************************)
NoRow ==
    [exists |-> FALSE, shop |-> Null, name |-> Null, email |-> <<>>,
     status |-> Null, statusUpdatedAt |-> NoDate, statusNotes |-> Null,
     emailNotificationState |-> Null, lastEmailAttemptAt |-> NoDate,
     lastEmailError |-> Null]

NotSummarized == [called |-> FALSE, notificationState |-> Null, lastError |-> Null]

DispatchInit ==
    /\ env \in DispatchEnvs
    /\ req = [r \in ReqIds |-> IdleRequest]
    /\ enquiries = [r \in ReqIds |-> NoRow]
    /\ emailLogs = [r \in ReqIds |-> <<>>]
    /\ dash = [d \in DashIds |-> IdleDash]
    /\ sumIn = <<>>
    /\ sumOut = NotSummarized

Invoke(r, name, email) ==
    /\ req[r].pc = "idle"
    /\ req' = [req EXCEPT ![r] =
                  sendEnquiryEmails(env, [name |-> name, email |-> email], req[r])]
    /\ UNCHANGED <<env, enquiries, emailLogs, sumIn, sumOut, dash>>

DispatchNext ==
    \/ \E name \in Names, email \in DispatchEmails : Invoke(1, name, email)
    \/ \E out \in Settlements : TransportSettles(1, out)
    \/ Continue(1)

DispatchSpec == DispatchInit /\ [][DispatchNext]_vars

\* The same dispatch under the scheduling the runtime gives it: a transport call
\* that is pending eventually settles (the premise of every termination
\* statement about the engine), and a continuation that is queued behind an await
\* is eventually run by the event loop.
\* Termination does not depend on the blanks of the staff list: the environments
\* are those of DispatchEnvs whose staff list is written with a and commas only.
FairEnvs ==
    [MAILGUN_API_KEY : MailerSettings,
     MAILGUN_DOMAIN : MailerSettings,
     MAILGUN_FROM_EMAIL : MailerSettings,
     ENQUIRY_STAFF_EMAIL :
        {Unset} \cup {EnvString(s) : s \in SeqsUpTo({"a", ","}, MaxStaffLen)}]

DispatchFairInit ==
    /\ env \in FairEnvs
    /\ req = [r \in ReqIds |-> IdleRequest]
    /\ enquiries = [r \in ReqIds |-> NoRow]
    /\ emailLogs = [r \in ReqIds |-> <<>>]
    /\ dash = [d \in DashIds |-> IdleDash]
    /\ sumIn = <<>>
    /\ sumOut = NotSummarized

DispatchFairSpec ==
    /\ DispatchFairInit
    /\ [][DispatchNext]_vars
    /\ WF_vars(\E out \in Settlements : TransportSettles(1, out))
    /\ WF_vars(Continue(1))

(***************************************************************************)
(* The SMTP variant of the engine (enquiry-email.server.ts 36-56, 360-442):*)
(* the same exported sendEnquiryEmails over a nodemailer transporter.  It  *)
(* issues one sendMail for all staff recipients and one for the customer,  *)
(* awaits Promise.all of them and returns nothing.                         *)
(***************************************************************************)
SmtpFailure == "Failed to send enquiry notification email"

NotANumber == [nan |-> TRUE, value |-> 0]
DigitValue(c) ==
    CASE c = "0" -> 0 [] c = "1" -> 1 [] c = "2" -> 2 [] c = "3" -> 3 [] c = "4" -> 4
      [] c = "5" -> 5 [] c = "6" -> 6 [] c = "7" -> 7 [] c = "8" -> 8 [] c = "9" -> 9
IsDigit(c) == c \in {"0", "1", "2", "3", "4", "5", "6", "7", "8", "9"}

RECURSIVE ParseDigits(_, _)
\* the value of the leading digits of s after the digits already read as acc
ParseDigits(s, acc) ==
    IF s = <<>> \/ ~IsDigit(Head(s)) THEN acc
    ELSE ParseDigits(Tail(s), 10 * acc + DigitValue(Head(s)))

\* Number.parseInt(s, 10) on a string without sign or leading white space
parseInt(s) ==
    IF s = <<>> \/ ~IsDigit(Head(s)) THEN NotANumber
    ELSE [nan |-> FALSE, value |-> ParseDigits(s, 0)]

\* getMailer of the SMTP variant (36-56): null without a host or a usable port
smtpGetMailer(e) ==
    LET host == e.ENQUIRY_SMTP_HOST
        port == IF Truthy(e.ENQUIRY_SMTP_PORT) THEN parseInt(e.ENQUIRY_SMTP_PORT.val)
                ELSE NotANumber
    IN  IF ~Truthy(host) \/ port.nan \/ port.value = 0
        THEN [configured |-> FALSE, host |-> <<>>, port |-> 0]
        ELSE [configured |-> TRUE, host |-> host.val, port |-> port.value]

\* What a call threw: an Error with its message, or another value
ThrownError(message) == [thrown |-> TRUE, isError |-> TRUE, message |-> message]
ThrownValue(out) == [thrown |-> TRUE, isError |-> out.type = "Error", message |-> out.message]

\* transporter.sendMail({ to, from, subject, text, html, attachments })
SendMail(to, from, subject, text, html) ==
    [to |-> to, from |-> from, subject |-> subject, text |-> text, html |-> html,
     result |-> InFlight]

\* sendEnquiryEmails of the SMTP variant (370-441) up to await Promise.all
smtpSendEnquiryEmails(e, enquiry, rq) ==
    LET transporter == smtpGetMailer(e)
        fromAddress == e.ENQUIRY_NOTIFICATION_FROM
        staffRecipients == getStaffRecipients(e)
        customerRecipient == CustomerRecipient(enquiry)
        subject == buildSubject(enquiry)
        staffOperation ==
            IF Len(staffRecipients) # 0
            THEN <<SendMail(staffRecipients, fromAddress.val, subject,
                            buildTextEmailBody(enquiry, staffMessage),
                            buildHtmlEmailBody(enquiry, staffMessage))>>
            ELSE <<>>
        customerOperation ==
            IF customerRecipient # <<>>
            THEN <<SendMail(customerRecipient, fromAddress.val, subject,
                            buildTextEmailBody(enquiry, customerMessage),
                            buildHtmlEmailBody(enquiry, customerMessage))>>
            ELSE <<>>
    IN  IF \/ ~transporter.configured
           \/ ~Truthy(fromAddress)
           \/ (Len(staffRecipients) = 0 /\ customerRecipient = <<>>)
        THEN [rq EXCEPT !.enquiry = enquiry,
                        !.pc = "threw",
                        !.thrown = ThrownError(SmtpFailure)]
        ELSE [rq EXCEPT !.enquiry = enquiry,
                        !.subject = subject,
                        !.calls = staffOperation \o customerOperation,
                        !.pc = "awaiting"]

\* await Promise.all(sendOperations) (441) when operation i settles with out: the
\* first rejection is thrown by the call, the last fulfilment lets it return
\* undefined; a settlement after the call has ended changes nothing for the caller.
smtpSendMailSettled(rq, i, out) ==
    LET calls == [rq.calls EXCEPT ![i].result = out]
    IN  IF rq.pc # "awaiting" THEN [rq EXCEPT !.calls = calls]
        ELSE IF out.settle = "reject"
             THEN [rq EXCEPT !.calls = calls, !.pc = "threw", !.thrown = ThrownValue(out)]
        ELSE IF \A j \in 1..Len(calls) : calls[j].result.settle = "resolve"
             THEN [rq EXCEPT !.calls = calls, !.pc = "returned"]
        ELSE [rq EXCEPT !.calls = calls]

PortStrings == {<<"5", "8", "7">>, <<"0">>, <<"x">>}

SmtpEnvs ==
    [ENQUIRY_SMTP_HOST : MailerSettings,
     ENQUIRY_SMTP_PORT : {Unset} \cup {EnvString(s) : s \in PortStrings},
     ENQUIRY_NOTIFICATION_FROM : MailerSettings,
     ENQUIRY_STAFF_EMAIL :
        {Unset} \cup {EnvString(s) : s \in SeqsUpTo(StaffChars, MaxStaffLen)}]

SmtpInit ==
    /\ env \in SmtpEnvs
    /\ req = [r \in ReqIds |-> IdleRequest]
    /\ enquiries = [r \in ReqIds |-> NoRow]
    /\ emailLogs = [r \in ReqIds |-> <<>>]
    /\ dash = [d \in DashIds |-> IdleDash]
    /\ sumIn = <<>>
    /\ sumOut = NotSummarized

SmtpInvoke(r, name, email) ==
    /\ req[r].pc = "idle"
    /\ req' = [req EXCEPT ![r] =
                  smtpSendEnquiryEmails(env, [name |-> name, email |-> email], req[r])]
    /\ UNCHANGED <<env, enquiries, emailLogs, sumIn, sumOut, dash>>

SmtpSettles(r, i, out) ==
    /\ req[r].pc \in {"awaiting", "threw"}
    /\ i \in 1..Len(req[r].calls)
    /\ req[r].calls[i].result = InFlight
    /\ req' = [req EXCEPT ![r] = smtpSendMailSettled(req[r], i, out)]
    /\ UNCHANGED <<env, enquiries, emailLogs, sumIn, sumOut, dash>>

SmtpNext ==
    \/ \E name \in Names, email \in DispatchEmails : SmtpInvoke(1, name, email)
    \/ \E i \in 1..Len(req[1].calls), out \in Settlements : SmtpSettles(1, i, out)

SmtpSpec == SmtpInit /\ [][SmtpNext]_vars

(***************************************************************************)
(* Properties of one call of the SMTP variant (SmtpSpec).                  *)
(***************************************************************************)
\* The expected failure modes of a call: the transport is not configured, no
\* recipient is resolved, or the provider has rejected a send.
SmtpFailureMode ==
    \/ ~smtpGetMailer(env).configured
    \/ ~Truthy(env.ENQUIRY_NOTIFICATION_FROM)
    \/ (getStaffRecipients(env) = <<>> /\ CustomerRecipient(req[1].enquiry) = <<>>)
    \/ \E i \in 1..Len(req[1].calls) : req[1].calls[i].result.settle = "reject"

\* C11: in an expected failure mode (transport not configured, no recipient, a
\* send rejected by the provider) a call of sendEnquiryEmails never ends by
\* throwing; it returns an outcome that holds a FAILURE attempt and whose
\* notificationState is not SENT.
C11_NeverThrows ==
    (req[1].pc # "idle" /\ SmtpFailureMode)
    => /\ req[1].pc # "threw"
       /\ req[1].pc = "returned"
            => /\ req[1].outcome.returned
               /\ req[1].outcome.notificationState # SENT
               /\ \E i \in 1..Len(req[1].attempts) : req[1].attempts[i].status = FAILURE

(***************************************************************************)
(* The storefront intake action (proxy.enquiry.ts 88-262) on the database. *)
(* Requests overlap: each await of the handler is a point where another    *)
(* request may run.  The id of the Enquiry row a request creates is the    *)
(* request's own number (ids are unique, nothing else is read from them).  *)
(***************************************************************************)
UnknownDispatchError == "Unknown error sending enquiry notification email"

\* normalizeString (63-70) on a form field that is present
normalizeString(value) == Trim(value)

\* A session of the app proxy, or none; context.session?.shop ?? "unknown" (146)
NoSession == [present |-> FALSE, shop |-> Null]
Session(shop) == [present |-> TRUE, shop |-> shop]
ShopOf(session) == IF session.present THEN session.shop ELSE "unknown"

\* CURRENT_TIMESTAMP of the insert made by request r
CreatedAt(r) == [set |-> TRUE, request |-> r, by |-> "create"]

\* prisma.enquiry.create (144-170) with the column defaults of the migration
NewEnquiryRow(shop, name, emailValue, now) ==
    [exists |-> TRUE, shop |-> shop, name |-> name, email |-> emailValue,
     status |-> "NEW", statusUpdatedAt |-> now, statusNotes |-> Null,
     emailNotificationState |-> PENDING, lastEmailAttemptAt |-> NoDate,
     lastEmailError |-> Null]

\* Variant: the fallback outcome carries the generic text whatever was thrown
ResolvedOutcomeGenericFallback(rq) ==
    IF rq.outcome.returned
    THEN [attempts |-> rq.attempts,
          notificationState |-> rq.outcome.notificationState,
          lastError |-> rq.outcome.lastError]
    ELSE [attempts |-> <<>>,
          notificationState |-> FAILED,
          lastError |-> UnknownDispatchError]

\* resolvedOutcome (192-201): the outcome returned, or the fallback after a throw
ResolvedOutcome(rq) ==
    IF rq.outcome.returned
    THEN [attempts |-> rq.attempts,
          notificationState |-> rq.outcome.notificationState,
          lastError |-> rq.outcome.lastError]
    ELSE [attempts |-> <<>>,
          notificationState |-> FAILED,
          lastError |-> IF rq.emailError.isError THEN rq.emailError.message
                        ELSE UnknownDispatchError]

RECURSIVE LogRowsFailuresOnly(_, _)
\* Variant: only the failed attempts are logged
LogRowsFailuresOnly(enquiryId, attempts) ==
    IF attempts = <<>> THEN <<>>
    ELSE (IF Head(attempts).status = FAILURE
          THEN <<[enquiryId |-> enquiryId,
                  recipient |-> Head(attempts).recipient,
                  recipientType |-> Head(attempts).recipientType,
                  status |-> Head(attempts).status,
                  subject |-> Head(attempts).subject,
                  errorMessage |-> Head(attempts).errorMessage,
                  providerId |-> Head(attempts).providerId,
                  metadata |-> Head(attempts).metadata]>>
          ELSE <<>>)
         \o LogRowsFailuresOnly(enquiryId, Tail(attempts))

RECURSIVE LogRows(_, _)
\* resolvedOutcome.attempts.map((attempt) => ({ enquiryId: enquiry.id, ... })) (227-239)
LogRows(enquiryId, attempts) ==
    IF attempts = <<>> THEN <<>>
    ELSE <<[enquiryId |-> enquiryId,
            recipient |-> Head(attempts).recipient,
            recipientType |-> Head(attempts).recipientType,
            status |-> Head(attempts).status,
            subject |-> Head(attempts).subject,
            errorMessage |-> Head(attempts).errorMessage,
            providerId |-> Head(attempts).providerId,
            metadata |-> Head(attempts).metadata]>>
         \o LogRows(enquiryId, Tail(attempts))

\* Inputs of the intake: the environment, the form and what the transport does
IntakeEnvs ==
    [MAILGUN_API_KEY : {EnvString(<<"k">>)},
     MAILGUN_DOMAIN : MailerSettings,
     MAILGUN_FROM_EMAIL : {EnvString(<<"k">>)},
     ENQUIRY_STAFF_EMAIL : {Unset, EnvString(<<"a", ",", " ", "b">>)}]

IntakeEmails == {<<>>, <<" ", "c">>}
IntakeSettlements ==
    { Resolved("object", "<id-1>", "Queued. Thank you."),
      Rejected("Error", "e1", "Error", "401", Null) }
Methods == {"POST", "GET"}
IntakeSessions == {Session("s1")}
\* What the client library may throw: an Error, or a value that is not an Error
ThrownValues ==
    { ThrownError("e0"),
      [thrown |-> TRUE, isError |-> FALSE, message |-> "s0"] }

Init ==
    /\ env \in IntakeEnvs
    /\ req = [r \in ReqIds |-> IdleRequest]
    /\ enquiries = [r \in ReqIds |-> NoRow]
    /\ emailLogs = [r \in ReqIds |-> <<>>]
    /\ dash = [d \in DashIds |-> IdleDash]
    /\ sumIn = <<>>
    /\ sumOut = NotSummarized

\* A request arrives (88-175).  Anything but POST is answered 405; a POST creates
\* the Enquiry row.  Requests are numbered in the order they arrive.
Submit(r, method, session, name, email) ==
    /\ req[r].pc = "idle"
    /\ \A q \in ReqIds : q < r => req[q].pc # "idle"
    /\ IF method # "POST"
       THEN /\ req' = [req EXCEPT ![r].pc = "done", ![r].response = "405"]
            /\ UNCHANGED enquiries
       ELSE /\ enquiries' = [enquiries EXCEPT ![r] =
                    NewEnquiryRow(ShopOf(session), name, normalizeString(email), CreatedAt(r))]
            /\ req' = [req EXCEPT ![r].pc = "created", ![r].enquiryId = r]
    /\ UNCHANGED <<env, emailLogs, sumIn, sumOut, dash>>

\* 177-183: attemptedAt = new Date(), then the call of sendEnquiryEmails with the
\* stored enquiry, up to its first suspension
Dispatch(r) ==
    /\ req[r].pc = "created"
    /\ LET row == enquiries[req[r].enquiryId]
       IN  req' = [req EXCEPT ![r] =
                      sendEnquiryEmails(env, [name |-> row.name, email |-> row.email],
                                        [req[r] EXCEPT !.attemptedAt = DateOf(r)])]
    /\ UNCHANGED <<env, enquiries, emailLogs, sumIn, sumOut, dash>>

\* Variant: no try/catch around the call, the throw fails the action
DispatchThrowsUncaught(r, error) ==
    /\ req[r].pc = "created"
    /\ getMailer(env).configured
    /\ req' = [req EXCEPT ![r].attemptedAt = DateOf(r),
                           ![r].thrown = error,
                           ![r].pc = "done",
                           ![r].response = "error"]
    /\ UNCHANGED <<env, enquiries, emailLogs, sumIn, sumOut, dash>>

\* 177-190: sendEnquiryEmails throws and the catch block keeps the value in
\* emailError.  The engine has no throw of its own; what can throw is the Mailgun
\* client library it constructs once the three settings are present
\* (enquiry-email.server.ts 529-534).
DispatchThrows(r, error) ==
    /\ req[r].pc = "created"
    /\ getMailer(env).configured
    /\ req' = [req EXCEPT ![r].attemptedAt = DateOf(r),
                           ![r].thrown = error,
                           ![r].emailError = error,
                           ![r].pc = "returned"]
    /\ UNCHANGED <<env, enquiries, emailLogs, sumIn, sumOut, dash>>

\* Variant: lastEmailAttemptAt is a new Date() taken when the update is built
PersistStampedAtCommit(r) ==
    /\ req[r].pc = "returned"
    /\ LET resolvedOutcome == ResolvedOutcome(req[r])
           id == req[r].enquiryId
       IN  /\ enquiries' = [enquiries EXCEPT ![id] =
                  [@ EXCEPT !.emailNotificationState = resolvedOutcome.notificationState,
                            !.lastEmailAttemptAt = DateOf(r),
                            !.lastEmailError = resolvedOutcome.lastError]]
           /\ emailLogs' =
                  IF Len(resolvedOutcome.attempts) # 0
                  THEN [emailLogs EXCEPT ![id] = @ \o LogRows(id, resolvedOutcome.attempts)]
                  ELSE emailLogs
    /\ req' = [req EXCEPT ![r].pc = "done", ![r].transaction = "committed",
                           ![r].response = "ok"]
    /\ UNCHANGED <<env, sumIn, sumOut, dash>>

\* Variant: an outcome that is not SENT leaves the enquiry PENDING for a retry
PersistLeavesFailedPending(r) ==
    /\ req[r].pc = "returned"
    /\ LET resolvedOutcome == ResolvedOutcome(req[r])
           id == req[r].enquiryId
       IN  /\ enquiries' = [enquiries EXCEPT ![id] =
                  [@ EXCEPT !.emailNotificationState =
                                IF resolvedOutcome.notificationState = SENT
                                THEN SENT ELSE PENDING,
                            !.lastEmailAttemptAt = req[r].attemptedAt,
                            !.lastEmailError = resolvedOutcome.lastError]]
           /\ emailLogs' =
                  IF Len(resolvedOutcome.attempts) # 0
                  THEN [emailLogs EXCEPT ![id] = @ \o LogRows(id, resolvedOutcome.attempts)]
                  ELSE emailLogs
    /\ req' = [req EXCEPT ![r].pc = "done", ![r].transaction = "committed",
                           ![r].response = "ok"]
    /\ UNCHANGED <<env, sumIn, sumOut, dash>>

\* Variant: the update and the createMany are awaited one after the other, not
\* in one transaction
PersistInTwoSteps(r) ==
    /\ req[r].pc = "returned"
    /\ LET resolvedOutcome == ResolvedOutcome(req[r])
           id == req[r].enquiryId
       IN  IF ~enquiries[id].lastEmailAttemptAt.set
           THEN /\ enquiries' = [enquiries EXCEPT ![id] =
                       [@ EXCEPT !.emailNotificationState = resolvedOutcome.notificationState,
                                 !.lastEmailAttemptAt = req[r].attemptedAt,
                                 !.lastEmailError = resolvedOutcome.lastError]]
                /\ UNCHANGED <<req, emailLogs>>
           ELSE /\ emailLogs' = [emailLogs EXCEPT ![id] = @ \o LogRows(id, resolvedOutcome.attempts)]
                /\ req' = [req EXCEPT ![r].pc = "done", ![r].transaction = "committed",
                                       ![r].response = "ok"]
                /\ UNCHANGED enquiries
    /\ UNCHANGED <<env, sumIn, sumOut, dash>>

\* 192-261: prisma.$transaction([enquiry.update, enquiryEmailLog.createMany])
\* commits, and the action answers { ok: true }
Persist(r) ==
    /\ req[r].pc = "returned"
    /\ LET resolvedOutcome == ResolvedOutcome(req[r])
           id == req[r].enquiryId
       IN  /\ enquiries' = [enquiries EXCEPT ![id] =
                  [@ EXCEPT !.emailNotificationState = resolvedOutcome.notificationState,
                            !.lastEmailAttemptAt = req[r].attemptedAt,
                            !.lastEmailError = resolvedOutcome.lastError]]
           /\ emailLogs' =
                  IF Len(resolvedOutcome.attempts) # 0
                  THEN [emailLogs EXCEPT ![id] = @ \o LogRows(id, resolvedOutcome.attempts)]
                  ELSE emailLogs
    /\ req' = [req EXCEPT ![r].pc = "done", ![r].transaction = "committed",
                           ![r].response = "ok"]
    /\ UNCHANGED <<env, sumIn, sumOut, dash>>

\* 244: the transaction is rejected by the database; nothing of it is applied and
\* the action fails with the rejection
PersistFails(r) ==
    /\ req[r].pc = "returned"
    /\ req' = [req EXCEPT ![r].pc = "done", ![r].transaction = "rejected",
                           ![r].response = "error"]
    /\ UNCHANGED <<env, enquiries, emailLogs, sumIn, sumOut, dash>>

Next ==
    \/ \E r \in ReqIds, method \in Methods, session \in IntakeSessions,
            name \in Names, email \in IntakeEmails :
          Submit(r, method, session, name, email)
    \/ \E r \in ReqIds : Dispatch(r)
    \/ \E r \in ReqIds, error \in ThrownValues : DispatchThrows(r, error)
    \/ \E r \in ReqIds, out \in IntakeSettlements : TransportSettles(r, out)
    \/ \E r \in ReqIds : Continue(r)
    \/ \E r \in ReqIds : Persist(r)
    \/ \E r \in ReqIds : PersistFails(r)

Spec == Init /\ [][Next]_vars

(***************************************************************************)
(* The dashboard action update-status (enquiry-email.server.ts 1383-1460). *)
(* It reads the enquiry (findUnique) and writes it (update) in two awaits, *)
(* so other requests may run between the two.  pc of a dashboard request:  *)
(*   "idle"   not started                                                  *)
(*   "found"  findUnique has returned an enquiry of the session's shop     *)
(*   "done"   the response has been sent                                   *)
(***************************************************************************)
STATUS_VALUES ==
    {"NEW", "IN_PROGRESS", "AWAITING_CUSTOMER", "QUOTE_SENT", "COMPLETED", "CLOSED"}

\* The form values of the field status, and statusRaw.trim().toUpperCase() of
\* each; a field that is not a string gives ""
StatusInputs == {Null, "new", " closed ", "bogus"}
TrimUpperCase(raw) ==
    CASE raw = "new" -> "NEW"
      [] raw = " closed " -> "CLOSED"
      [] raw = "bogus" -> "BOGUS"
StatusValue(statusRaw) == IF statusRaw = Null THEN "" ELSE TrimUpperCase(statusRaw)

\* The form values of the field statusNotes, and notesRaw.trim() of each
NotesInputs == {Null, " ", " n "}
TrimNotes(raw) ==
    CASE raw = " " -> ""
      [] raw = " n " -> "n"
StatusNotes(notesRaw) ==
    IF notesRaw # Null /\ TrimNotes(notesRaw) # "" THEN TrimNotes(notesRaw) ELSE Null

\* The form values of the field enquiryId after trim(): 0 is a field that is
\* absent or blank, a number the id of the row an intake created or will create
EnquiryIdInputs == {0} \cup ReqIds
Intents == {"update-status", "delete"}
DashShops == {"s1", "s2"}

\* new Date() of dashboard request d
UpdatedAt(d) == [set |-> TRUE, request |-> d, by |-> "update-status"]

BadRequest(error) == [status |-> 400, ok |-> FALSE, error |-> error]
NotFound == [status |-> 404, ok |-> FALSE, error |-> "Enquiry not found"]
Updated(id, row) ==
    [status |-> 200, ok |-> TRUE,
     enquiry |-> [id |-> id, status |-> row.status, statusNotes |-> row.statusNotes,
                  statusUpdatedAt |-> row.statusUpdatedAt]]

\* Requests of a behaviour that have arrived, of both routes
Arrived ==
    Cardinality({r \in ReqIds : req[r].pc # "idle"})
        + Cardinality({d \in DashIds : dash[d].pc # "idle"})

\* Variant: the enquiry is looked up by id alone, whatever shop it belongs to
CheckedRequestAnyShop(dq, shop, intent, enquiryId, statusRaw, notesRaw) ==
    LET statusValue == StatusValue(statusRaw)
        statusNotes == StatusNotes(notesRaw)
        answer(response) == [dq EXCEPT !.pc = "done", !.shop = shop,
                                       !.response = response]
    IN  IF intent # "update-status" THEN answer(BadRequest("Unsupported action"))
        ELSE IF enquiryId = 0 THEN answer(BadRequest("Missing enquiry identifier"))
        ELSE IF statusValue \notin STATUS_VALUES
             THEN answer(BadRequest("Invalid status value"))
        ELSE IF ~enquiries[enquiryId].exists
             THEN [answer(NotFound) EXCEPT !.enquiryId = enquiryId]
        ELSE [dq EXCEPT !.pc = "found",
                        !.shop = shop,
                        !.enquiryId = enquiryId,
                        !.statusValue = statusValue,
                        !.statusNotes = statusNotes,
                        !.existing = [status |-> enquiries[enquiryId].status]]

\* 1383-1431 for one request dq: the session, the form, the validation and
\* findUnique, up to the answer (400, 404) or to the row found
CheckedRequest(dq, shop, intent, enquiryId, statusRaw, notesRaw) ==
    LET statusValue == StatusValue(statusRaw)
        statusNotes == StatusNotes(notesRaw)
        answer(response) == [dq EXCEPT !.pc = "done", !.shop = shop,
                                       !.response = response]
    IN  IF intent # "update-status" THEN answer(BadRequest("Unsupported action"))
        ELSE IF enquiryId = 0 THEN answer(BadRequest("Missing enquiry identifier"))
        ELSE IF statusValue \notin STATUS_VALUES
             THEN answer(BadRequest("Invalid status value"))
        ELSE IF ~enquiries[enquiryId].exists \/ enquiries[enquiryId].shop # shop
             THEN [answer(NotFound) EXCEPT !.enquiryId = enquiryId]
        ELSE [dq EXCEPT !.pc = "found",
                        !.shop = shop,
                        !.enquiryId = enquiryId,
                        !.statusValue = statusValue,
                        !.statusNotes = statusNotes,
                        !.existing = [status |-> enquiries[enquiryId].status]]

\* A dashboard request arrives and runs up to its answer or to its update.
\* Requests are numbered in the order they arrive.
DashRequest(d, shop, intent, enquiryId, statusRaw, notesRaw) ==
    /\ dash[d].pc = "idle"
    /\ \A c \in DashIds : c < d => dash[c].pc # "idle"
    /\ dash' = [dash EXCEPT ![d] =
                   CheckedRequest(dash[d], shop, intent, enquiryId, statusRaw, notesRaw)]
    /\ UNCHANGED <<env, req, enquiries, emailLogs, sumIn, sumOut>>

\* Variant: the update also puts the notification state back to PENDING
UpdatedStatusRowResetsNotification(row, dq, now) ==
    [row EXCEPT !.status = dq.statusValue,
                !.statusNotes = dq.statusNotes,
                !.emailNotificationState = PENDING,
                !.statusUpdatedAt = IF dq.existing.status # dq.statusValue THEN now ELSE @]

\* data of prisma.enquiry.update (1433-1442) applied to the stored row
UpdatedStatusRow(row, dq, now) ==
    [row EXCEPT !.status = dq.statusValue,
                !.statusNotes = dq.statusNotes,
                !.statusUpdatedAt = IF dq.existing.status # dq.statusValue THEN now ELSE @]

\* Variant: the update also clears the e-mail log of the enquiry
DashUpdatePurgingLog(d) ==
    /\ dash[d].pc = "found"
    /\ LET id == dash[d].enquiryId
           updated == UpdatedStatusRow(enquiries[id], dash[d], UpdatedAt(d))
       IN  /\ enquiries' = [enquiries EXCEPT ![id] = updated]
           /\ emailLogs' = [emailLogs EXCEPT ![id] = <<>>]
           /\ dash' = [dash EXCEPT ![d].pc = "done", ![d].response = Updated(id, updated)]
    /\ UNCHANGED <<env, req, sumIn, sumOut>>

\* 1433-1459: prisma.enquiry.update and the answer
DashUpdate(d) ==
    /\ dash[d].pc = "found"
    /\ LET id == dash[d].enquiryId
           updated == UpdatedStatusRow(enquiries[id], dash[d], UpdatedAt(d))
       IN  /\ enquiries' = [enquiries EXCEPT ![id] = updated]
           /\ dash' = [dash EXCEPT ![d].pc = "done", ![d].response = Updated(id, updated)]
    /\ UNCHANGED <<env, req, emailLogs, sumIn, sumOut>>

(***************************************************************************)
(* DashboardSpec: intakes and dashboard requests on one database, MaxOps   *)
(* requests in all, overlapping in every way.                              *)
(***************************************************************************)
DashboardEnvs ==
    [MAILGUN_API_KEY : {EnvString(<<"k">>)},
     MAILGUN_DOMAIN : {EnvString(<<"k">>)},
     MAILGUN_FROM_EMAIL : {EnvString(<<"k">>)},
     ENQUIRY_STAFF_EMAIL : {EnvString(<<"a">>)}]

DashboardInit ==
    /\ env \in DashboardEnvs
    /\ req = [r \in ReqIds |-> IdleRequest]
    /\ enquiries = [r \in ReqIds |-> NoRow]
    /\ emailLogs = [r \in ReqIds |-> <<>>]
    /\ dash = [d \in DashIds |-> IdleDash]
    /\ sumIn = <<>>
    /\ sumOut = NotSummarized

DashboardNext ==
    \/ \E r \in ReqIds, session \in IntakeSessions, name \in Names :
          Arrived < MaxOps /\ Submit(r, "POST", session, name, <<>>)
    \/ \E r \in ReqIds : Dispatch(r)
    \/ \E r \in ReqIds, error \in ThrownValues : DispatchThrows(r, error)
    \/ \E r \in ReqIds, out \in IntakeSettlements : TransportSettles(r, out)
    \/ \E r \in ReqIds : Continue(r)
    \/ \E r \in ReqIds : Persist(r)
    \/ \E r \in ReqIds : PersistFails(r)
    \/ \E d \in DashIds, shop \in DashShops, intent \in Intents,
          enquiryId \in EnquiryIdInputs, statusRaw \in StatusInputs,
          notesRaw \in NotesInputs :
          Arrived < MaxOps
            /\ DashRequest(d, shop, intent, enquiryId, statusRaw, notesRaw)
    \/ \E d \in DashIds : DashUpdate(d)

DashboardSpec == DashboardInit /\ [][DashboardNext]_vars

(***************************************************************************)
(* UpdateSpec: one intake and MaxOps dashboard requests on the enquiry it  *)
(* creates, overlapping in every way: two admins, or two tabs of one, who  *)
(* submit the status form of the same enquiry.                             *)
(***************************************************************************)
UpdateNext ==
    \/ \E session \in IntakeSessions, name \in Names :
          Submit(1, "POST", session, name, <<>>)
    \/ Dispatch(1)
    \/ \E out \in IntakeSettlements : TransportSettles(1, out)
    \/ Continue(1)
    \/ Persist(1)
    \/ \E d \in DashIds, shop \in DashShops, intent \in Intents,
          enquiryId \in EnquiryIdInputs, statusRaw \in StatusInputs,
          notesRaw \in NotesInputs :
          DashRequest(d, shop, intent, enquiryId, statusRaw, notesRaw)
    \/ \E d \in DashIds : DashUpdate(d)

UpdateSpec == DashboardInit /\ [][UpdateNext]_vars

(***************************************************************************)
(* SummarizeSpec: summarizeAttempts called directly on every attempt list  *)
(* of the bound, with every combination of status and errorMessage the     *)
(* type EnquiryEmailSendAttempt admits.                                    *)
(***************************************************************************)
ErrorTexts == {Null, "e1", "e2"}

AnyAttempts ==
    { Attempt(<<"a">>, STAFF, status, <<"[Free Visual] ", "Ann">>, msg, Null, NullMetadata) :
        status \in {SUCCESS, FAILURE}, msg \in ErrorTexts }

SummarizeInit ==
    /\ sumIn \in SeqsUpTo(AnyAttempts, MaxAttempts)
    /\ sumOut = NotSummarized
    /\ env = [MAILGUN_API_KEY |-> Unset, MAILGUN_DOMAIN |-> Unset,
              MAILGUN_FROM_EMAIL |-> Unset, ENQUIRY_STAFF_EMAIL |-> Unset]
    /\ req = [r \in ReqIds |-> IdleRequest]
    /\ enquiries = [r \in ReqIds |-> NoRow]
    /\ emailLogs = [r \in ReqIds |-> <<>>]
    /\ dash = [d \in DashIds |-> IdleDash]

Summarize ==
    /\ ~sumOut.called
    /\ sumOut' = [called |-> TRUE,
                  notificationState |-> summarizeAttempts(sumIn).notificationState,
                  lastError |-> summarizeAttempts(sumIn).lastError]
    /\ UNCHANGED <<env, req, enquiries, emailLogs, sumIn, dash>>

SummarizeNext == Summarize

SummarizeSpec == SummarizeInit /\ [][SummarizeNext]_vars

\* Positions of the attempts of a list with a given status
Positions(attempts, status) == {i \in 1..Len(attempts) : attempts[i].status = status}

Max(S) == CHOOSE m \in S : \A n \in S : n <= m

\* C1: a list with at least one FAILURE and at least one SUCCESS is summarized as
\* PARTIAL, and lastError is the errorMessage of the FAILURE at the greatest
\* position, wherever the SUCCESS entries are.
C1_MixedIsPartialWithLastFailure ==
    (sumOut.called /\ Positions(sumIn, FAILURE) # {} /\ Positions(sumIn, SUCCESS) # {})
    => /\ sumOut.notificationState = PARTIAL
       /\ sumOut.lastError = sumIn[Max(Positions(sumIn, FAILURE))].errorMessage

\* [FAILURE(e1), SUCCESS, FAILURE(e2)] has been summarized.
C1_Witness ==
    /\ sumOut.called
    /\ Len(sumIn) = 3
    /\ sumIn[1].status = FAILURE /\ sumIn[1].errorMessage = "e1"
    /\ sumIn[2].status = SUCCESS
    /\ sumIn[3].status = FAILURE /\ sumIn[3].errorMessage = "e2"
    /\ sumOut.lastError = "e2"

\* C2: a non-empty list of FAILURE entries only is summarized as FAILED, and
\* lastError is the errorMessage of its last entry.
C2_AllFailureIsFailed ==
    (sumOut.called /\ Len(sumIn) > 0 /\ Positions(sumIn, FAILURE) = 1..Len(sumIn))
    => /\ sumOut.notificationState = FAILED
       /\ sumOut.lastError = sumIn[Len(sumIn)].errorMessage

\* [FAILURE(e1), FAILURE(e2)] has been summarized.
C2_Witness ==
    /\ sumOut.called
    /\ Len(sumIn) = 2
    /\ sumIn[1].status = FAILURE /\ sumIn[1].errorMessage = "e1"
    /\ sumIn[2].status = FAILURE /\ sumIn[2].errorMessage = "e2"
    /\ sumOut.notificationState = FAILED

\* C3: a non-empty list with no FAILURE (so at least one SUCCESS) is summarized
\* as SENT with lastError null.
C3_NoFailureIsSent ==
    (sumOut.called /\ Positions(sumIn, SUCCESS) # {} /\ Positions(sumIn, FAILURE) = {})
    => /\ sumOut.notificationState = SENT
       /\ sumOut.lastError = Null

\* A list of two SUCCESS entries has been summarized.
C3_Witness ==
    /\ sumOut.called
    /\ Len(sumIn) = 2
    /\ Positions(sumIn, SUCCESS) = {1, 2}
    /\ sumOut.notificationState = SENT

\* C4: the empty list is summarized as FAILED with the fixed "no recipients"
\* text, never as SENT.
C4_EmptyIsFailed ==
    (sumOut.called /\ sumIn = <<>>)
    => /\ sumOut.notificationState = FAILED
       /\ sumOut.notificationState # SENT
       /\ sumOut.lastError = "No email recipients configured for enquiry notifications"

\* The empty list has been summarized.
C4_Witness ==
    /\ sumOut.called
    /\ sumIn = <<>>
    /\ sumOut.notificationState = FAILED

(***************************************************************************)
(* Properties of one dispatch (DispatchSpec).  D is the call.              *)
(***************************************************************************)
D == req[1]
Returned == D.pc = "returned"
ResolvedCount == Len(D.intendedRecipients)

\* The environment configures the transport: API key, domain and from-address
MailerConfigured ==
    /\ Truthy(env.MAILGUN_API_KEY)
    /\ Truthy(env.MAILGUN_DOMAIN)
    /\ Truthy(env.MAILGUN_FROM_EMAIL)

\* Every call so far went to the recipient at its own position: the i-th call is
\* for the i-th resolved recipient, so none is skipped and none is sent to twice.
OneCallPerRecipient ==
    /\ Len(D.calls) <= ResolvedCount
    /\ \A i \in 1..Len(D.calls) : D.calls[i].to = D.intendedRecipients[i].email

\* Every attempt so far is for the recipient at its own position.
OneAttemptPerRecipient ==
    /\ Len(D.attempts) <= ResolvedCount
    /\ \A i \in 1..Len(D.attempts) :
          /\ D.attempts[i].recipient = D.intendedRecipients[i].email
          /\ D.attempts[i].recipientType = D.intendedRecipients[i].recipientType

\* C6 as stated: with a configured transport, a finished dispatch has as many
\* attempts and as many transport calls as resolved recipients, one per recipient.
C6_Original_AttemptsEqualRecipients ==
    (Returned /\ MailerConfigured)
    => /\ Len(D.attempts) = ResolvedCount
       /\ Len(D.calls) = ResolvedCount
       /\ OneCallPerRecipient
       /\ OneAttemptPerRecipient

\* C6 amended: with a configured transport and at least one resolved recipient,
\* at every moment each call and each attempt is for the recipient at its own
\* position, and a finished dispatch has exactly one call and one attempt per
\* resolved recipient, whatever each send settled with.  With no resolved
\* recipient no call is ever made.
C6_ExactlyOncePerRecipient ==
    MailerConfigured
    => /\ (ResolvedCount > 0 /\ D.pc # "idle") => (OneCallPerRecipient /\ OneAttemptPerRecipient)
       /\ (ResolvedCount > 0 /\ Returned) =>
             (Len(D.attempts) = ResolvedCount /\ Len(D.calls) = ResolvedCount)
       /\ (ResolvedCount = 0) => D.calls = <<>>

\* A finished dispatch to three recipients in which a send was rejected.
C6_Witness ==
    /\ Returned /\ MailerConfigured
    /\ ResolvedCount = 3
    /\ Len(D.calls) = 3
    /\ \E i \in 1..3 : D.calls[i].result.settle = "reject"

RejectedCalls == {i \in 1..Len(D.calls) : D.calls[i].result.settle = "reject"}

\* C7: a rejected send never stops the dispatch.  Once a dispatch with a
\* configured transport has returned, every resolved recipient has an attempt,
\* FAILURE exactly for the recipients whose send was rejected and SUCCESS for the
\* others; and if only the second of three sends was rejected the outcome is
\* PARTIAL with that attempt's message as lastError.
C7_FailureDoesNotStopDispatch ==
    (Returned /\ MailerConfigured /\ ResolvedCount > 0)
    => /\ Len(D.attempts) = ResolvedCount
       /\ Len(D.calls) = ResolvedCount
       /\ \A i \in 1..ResolvedCount :
             /\ D.attempts[i].recipient = D.intendedRecipients[i].email
             /\ D.attempts[i].status = IF i \in RejectedCalls THEN FAILURE ELSE SUCCESS
       /\ (ResolvedCount = 3 /\ RejectedCalls = {2}) =>
             /\ Positions(D.attempts, SUCCESS) = {1, 3}
             /\ Positions(D.attempts, FAILURE) = {2}
             /\ D.outcome.notificationState = PARTIAL
             /\ D.outcome.lastError = D.attempts[2].errorMessage
             /\ D.outcome.lastError # Null
             /\ (D.calls[2].result.type = "Error"
                    => D.outcome.lastError = D.calls[2].result.message)

\* Staff a and b and the customer aa; only the send to b was rejected.
C7_Witness ==
    /\ Returned /\ MailerConfigured
    /\ ResolvedCount = 3
    /\ D.intendedRecipients[1].email = <<"a">>
    /\ D.intendedRecipients[2].email = <<"b">>
    /\ D.intendedRecipients[3].email = <<"a", "a">>
    /\ RejectedCalls = {2}
    /\ D.outcome.notificationState = PARTIAL
    /\ D.outcome.lastError = "e1"

\* The message recorded for a rejection
RecordedMessage(out) ==
    IF out.type \in {"Error", "string"} THEN out.message ELSE "Unknown error sending email"

\* C8: the returned attempts are in resolver order.  The i-th attempt has the
\* address and class of the i-th resolved recipient (no CUSTOMER entry before a
\* STAFF entry), whatever the sends settled with, and lastError is the message of
\* the rejected send at the greatest position of that order.
C8_AttemptsInResolverOrder ==
    (Returned /\ ResolvedCount > 0)
    => /\ Len(D.attempts) = ResolvedCount
       /\ \A i \in 1..ResolvedCount :
             /\ D.attempts[i].recipient = D.intendedRecipients[i].email
             /\ D.attempts[i].recipientType = D.intendedRecipients[i].recipientType
       /\ \A i, j \in 1..ResolvedCount :
             (D.attempts[i].recipientType = CUSTOMER /\ D.attempts[j].recipientType = STAFF)
                => j < i
       /\ (MailerConfigured /\ RejectedCalls # {}) =>
             D.outcome.lastError = RecordedMessage(D.calls[Max(RejectedCalls)].result)

\* Three recipients; the first and the last send were rejected with different
\* messages and lastError is the last one's.
C8_Witness ==
    /\ Returned /\ MailerConfigured
    /\ ResolvedCount = 3
    /\ D.attempts[1].recipient = <<"b">> /\ D.attempts[1].recipientType = STAFF
    /\ D.attempts[2].recipient = <<"a">> /\ D.attempts[2].recipientType = STAFF
    /\ D.attempts[3].recipientType = CUSTOMER
    /\ RejectedCalls = {1, 3}
    /\ D.calls[1].result.message = "e2"
    /\ D.calls[3].result.message = "e1"
    /\ D.outcome.lastError = "e1"

\* No staff address and no customer address: ENQUIRY_STAFF_EMAIL is unset or has
\* only blanks between its commas, and enquiry.email is blank.
NothingToResolve ==
    /\ \A i \in 1..Len(env.ENQUIRY_STAFF_EMAIL.val) :
          env.ENQUIRY_STAFF_EMAIL.val[i] \in {",", " "}
    /\ \A i \in 1..Len(D.enquiry.email) : D.enquiry.email[i] = " "

\* C9: with nothing to resolve, a started dispatch has made no transport call and
\* has returned exactly one attempt (recipient "n/a", class OTHER, FAILURE, the
\* fixed error text), state FAILED and the same text as lastError, whether the
\* transport is configured or not.
C9_NoRecipientsSyntheticAttempt ==
    (D.pc # "idle" /\ NothingToResolve)
    => /\ Returned
       /\ D.calls = <<>>
       /\ Len(D.attempts) = 1
       /\ D.attempts[1].recipient = <<"n", "/", "a">>
       /\ D.attempts[1].recipientType = "OTHER"
       /\ D.attempts[1].status = FAILURE
       /\ D.attempts[1].errorMessage =
             "No email recipients configured for enquiry notifications"
       /\ D.outcome.notificationState = FAILED
       /\ D.outcome.lastError = "No email recipients configured for enquiry notifications"

\* The transport is configured, the staff list is " , " and the e-mail is blank.
C9_Witness ==
    /\ Returned /\ MailerConfigured
    /\ env.ENQUIRY_STAFF_EMAIL = EnvString(<<" ", ",", " ">>)
    /\ D.enquiry.email = <<" ">>
    /\ Len(D.attempts) = 1
    /\ D.outcome.notificationState = FAILED

\* C10: with the API key, the domain or the from-address missing and at least one
\* resolved recipient, no transport call is ever made, and the returned outcome
\* has one FAILURE attempt per recipient with the "not configured" error text and
\* the missing_mailer_configuration metadata, state FAILED.  An attempt recorded
\* for a rejected send never carries that metadata.
C10_UnconfiguredFailsWithoutNetwork ==
    /\ (~MailerConfigured) => D.calls = <<>>
    /\ (~MailerConfigured /\ Returned /\ ResolvedCount > 0) =>
          /\ Len(D.attempts) = ResolvedCount
          /\ \A i \in 1..ResolvedCount :
                /\ D.attempts[i].recipient = D.intendedRecipients[i].email
                /\ D.attempts[i].status = FAILURE
                /\ D.attempts[i].errorMessage = "Mailgun client is not configured."
                /\ D.attempts[i].metadata = [reason |-> "missing_mailer_configuration"]
          /\ D.outcome.notificationState = FAILED
          /\ D.outcome.lastError = "Mailgun client is not configured."
    /\ \A i \in RejectedCalls :
          i <= Len(D.attempts) =>
             /\ D.attempts[i].status = FAILURE
             /\ D.attempts[i].metadata # [reason |-> "missing_mailer_configuration"]

\* Only MAILGUN_DOMAIN is missing; two recipients were resolved.
C10_Witness ==
    /\ Returned
    /\ Truthy(env.MAILGUN_API_KEY) /\ ~Truthy(env.MAILGUN_DOMAIN)
    /\ Truthy(env.MAILGUN_FROM_EMAIL)
    /\ ResolvedCount = 2
    /\ Len(D.attempts) = 2
    /\ D.outcome.notificationState = FAILED

(***************************************************************************)
(* The recipient list stated from the configured string itself: the pieces *)
(* between its commas, each without the white space around it.             *)
(***************************************************************************)
\* The staff string the call sees; an unset variable lists nothing
StaffString == IF env.ENQUIRY_STAFF_EMAIL.set THEN env.ENQUIRY_STAFF_EMAIL.val ELSE <<>>

\* Positions that bound a piece: before the string, each comma, after the string
Cuts(s) == {0} \cup {i \in 1..Len(s) : s[i] = ","} \cup {Len(s) + 1}
NthOf(S, k) == CHOOSE c \in S : Cardinality({d \in S : d < c}) = k - 1

\* t from its first to its last character that is not white space
Stripped(t) ==
    LET solid == {i \in 1..Len(t) : t[i] # " "}
    IN  IF solid = {} THEN <<>>
        ELSE SubSeq(t, CHOOSE i \in solid : \A j \in solid : i <= j,
                       CHOOSE i \in solid : \A j \in solid : j <= i)

\* The addresses s lists: its pieces, stripped, without the empty ones, in order
ListedAddresses(s) ==
    LET cuts == Cuts(s)
        piece == [k \in 1..(Cardinality(cuts) - 1) |->
                     Stripped(SubSeq(s, NthOf(cuts, k) + 1, NthOf(cuts, k + 1) - 1))]
        solid == {k \in DOMAIN piece : piece[k] # <<>>}
    IN  [j \in 1..Cardinality(solid) |-> piece[NthOf(solid, j)]]

\* C14: the resolved list holds, in the order listed, one STAFF entry for every
\* comma-separated piece of the staff string that is not empty once trimmed,
\* with the trimmed piece as its address, and after them exactly one CUSTOMER
\* entry with the trimmed customer e-mail when that is not empty, none otherwise.
C14_ResolvedListIsStaffThenCustomer ==
    D.pc # "idle" =>
        LET list == D.intendedRecipients
            listed == ListedAddresses(StaffString)
            n == Len(listed)
            customer == Stripped(D.enquiry.email)
        IN  /\ Len(list) = n + (IF customer # <<>> THEN 1 ELSE 0)
            /\ \A j \in 1..n :
                  /\ list[j].recipientType = STAFF
                  /\ list[j].email = listed[j]
            /\ customer # <<>> =>
                  /\ list[n + 1].recipientType = CUSTOMER
                  /\ list[n + 1].email = customer

\* The staff string ", a" (an empty piece, a piece to trim) and the customer
\* e-mail "a " have been resolved to two entries.
C14_Witness ==
    /\ D.pc # "idle"
    /\ StaffString = <<",", " ", "a">>
    /\ D.enquiry.email = <<"a", " ">>
    /\ Len(D.intendedRecipients) = 2
    /\ D.intendedRecipients[1].recipientType = STAFF
    /\ D.intendedRecipients[2].recipientType = CUSTOMER

\* The positions at which the list of addresses listed holds address a
ListedAt(listed, a) == {j \in 1..Len(listed) : listed[j] = a}

\* The positions of the attempts of the call made to address a as class type
AttemptsTo(a, type) ==
    {i \in 1..Len(D.attempts) : D.attempts[i].recipient = a /\ D.attempts[i].recipientType = type}

\* C15: when the trimmed customer e-mail is also listed in the staff string, the
\* call returns for that address one STAFF attempt per listing and, besides,
\* exactly one CUSTOMER attempt: listed once, the address has two attempt
\* records, and with a configured transport two sends.
C15_SharedAddressAttemptedPerClass ==
    LET a == Stripped(D.enquiry.email)
        listings == Cardinality(ListedAt(ListedAddresses(StaffString), a))
    IN  (Returned /\ a # <<>> /\ listings > 0) =>
            /\ Cardinality(AttemptsTo(a, CUSTOMER)) = 1
            /\ Cardinality(AttemptsTo(a, STAFF)) = listings
            /\ listings = 1 =>
                  Cardinality({i \in 1..Len(D.attempts) : D.attempts[i].recipient = a}) = 2
            /\ MailerConfigured =>
                  Cardinality({i \in 1..Len(D.calls) : D.calls[i].to = a}) = listings + 1

\* Staff "a" and customer "a" with a configured transport: two sends and two
\* attempts to "a", the first STAFF, the second CUSTOMER.
C15_Witness ==
    /\ Returned /\ MailerConfigured
    /\ StaffString = <<"a">>
    /\ D.enquiry.email = <<"a">>
    /\ Len(D.calls) = 2
    /\ Len(D.attempts) = 2
    /\ D.attempts[1].recipient = <<"a">> /\ D.attempts[1].recipientType = STAFF
    /\ D.attempts[2].recipient = <<"a">> /\ D.attempts[2].recipientType = CUSTOMER

\* C16 as stated: no address occurs more than once in the resolved list.
C16_Original_NoAddressTwice ==
    D.pc # "idle" =>
        \A i, j \in 1..Len(D.intendedRecipients) :
            D.intendedRecipients[i].email = D.intendedRecipients[j].email => i = j

\* C16: the resolved list is not deduplicated.  An address occurs in it once for
\* every comma-separated piece of the staff string that equals it once trimmed,
\* and once more when it equals the trimmed customer e-mail; nothing but the
\* empty pieces is dropped.
C16_OneEntryPerListing ==
    D.pc # "idle" =>
        LET list == D.intendedRecipients
            listed == ListedAddresses(StaffString)
            customer == Stripped(D.enquiry.email)
        IN  \A a \in ({list[i].email : i \in 1..Len(list)} \cup {customer}) \ {<<>>} :
                Cardinality({j \in 1..Len(list) : list[j].email = a})
                    = Cardinality(ListedAt(listed, a)) + (IF customer = a THEN 1 ELSE 0)

\* The staff string "a,a" and the customer e-mail "a" have been resolved to three
\* entries for "a".
C16_Witness ==
    /\ D.pc # "idle"
    /\ StaffString = <<"a", ",", "a">>
    /\ D.enquiry.email = <<"a">>
    /\ Len(D.intendedRecipients) = 3
    /\ \A i \in 1..3 : D.intendedRecipients[i].email = <<"a">>

\* Every transport call of the call has been issued and has resolved
EverySendSucceeded ==
    /\ Len(D.calls) = ResolvedCount
    /\ \A i \in 1..Len(D.calls) : D.calls[i].result.settle = "resolve"

\* C17: with a configured transport, every send resolving, n listed staff
\* addresses and a non-empty customer e-mail, the call returns exactly n + 1
\* attempts, all SUCCESS with errorMessage null, notificationState SENT and
\* lastError null.
C17_AllSucceedIsSent ==
    (Returned /\ MailerConfigured /\ EverySendSucceeded /\ Stripped(D.enquiry.email) # <<>>)
    => /\ Len(D.attempts) = Len(ListedAddresses(StaffString)) + 1
       /\ \A i \in 1..Len(D.attempts) :
             /\ D.attempts[i].status = SUCCESS
             /\ D.attempts[i].errorMessage = Null
       /\ D.outcome.notificationState = SENT
       /\ D.outcome.lastError = Null

\* Staff "a,b" and customer "a", three sends resolved, one of them with a
\* response that carries no id: three attempts, SENT.
C17_Witness ==
    /\ Returned /\ MailerConfigured /\ EverySendSucceeded
    /\ StaffString = <<"a", ",", "b">>
    /\ D.enquiry.email = <<"a">>
    /\ Len(D.attempts) = 3
    /\ D.attempts[2].providerId = Null
    /\ D.outcome.notificationState = SENT

(***************************************************************************)
(* Properties of the intake on the database (Spec).                        *)
(***************************************************************************)
\* The notification update of enquiry e has been committed
Committed(e) == enquiries[e].exists /\ enquiries[e].lastEmailAttemptAt.set

\* C5: for every enquiry whose notification update has been committed, the
\* persisted state agrees with the attempt rows persisted with it: SENT only if
\* every row is SUCCESS, FAILED only if no row is SUCCESS (also with no row at
\* all), PARTIAL only if there is a SUCCESS row and a FAILURE row.
C5_StateAgreesWithRows ==
    \A e \in ReqIds :
        Committed(e) =>
            LET rows == emailLogs[e]
                state == enquiries[e].emailNotificationState
            IN  /\ state \in {SENT, PARTIAL, FAILED}
                /\ \A i \in 1..Len(rows) : rows[i].status \in {SUCCESS, FAILURE}
                /\ state = SENT => \A i \in 1..Len(rows) : rows[i].status = SUCCESS
                /\ state = FAILED => \A i \in 1..Len(rows) : rows[i].status # SUCCESS
                /\ state = PARTIAL =>
                      /\ \E i \in 1..Len(rows) : rows[i].status = SUCCESS
                      /\ \E i \in 1..Len(rows) : rows[i].status = FAILURE

\* Two intakes have committed: one PARTIAL with three rows, one SENT.
C5_Witness ==
    \E e, f \in ReqIds :
        /\ Committed(e) /\ Committed(f)
        /\ enquiries[e].emailNotificationState = PARTIAL
        /\ Len(emailLogs[e]) = 3
        /\ enquiries[f].emailNotificationState = SENT
        /\ Len(emailLogs[f]) >= 2

\* C12: the three notification fields and the attempt rows of an intake become
\* visible together.  In every state an enquiry is either still PENDING with no
\* attempt time, no error and no row, or it carries the outcome's state, the
\* attempt time and one row per attempt of the outcome; after a rejected
\* transaction it is still in the first case.
C12_StateAndRowsTogether ==
    \A e \in ReqIds :
        enquiries[e].exists =>
            LET row == enquiries[e]
                resolvedOutcome == ResolvedOutcome(req[e])
            IN  /\ \/ /\ row.emailNotificationState = PENDING
                      /\ ~row.lastEmailAttemptAt.set
                      /\ row.lastEmailError = Null
                      /\ emailLogs[e] = <<>>
                   \/ /\ row.emailNotificationState # PENDING
                      /\ row.emailNotificationState = resolvedOutcome.notificationState
                      /\ row.lastEmailAttemptAt.set
                      /\ Len(emailLogs[e]) = Len(resolvedOutcome.attempts)
                /\ req[e].transaction = "rejected" =>
                      /\ row.emailNotificationState = PENDING
                      /\ emailLogs[e] = <<>>

\* One intake has committed its state with two rows or more, the transaction of
\* another was rejected after a dispatch that produced attempts.
C12_Witness ==
    \E e, f \in ReqIds :
        /\ req[e].transaction = "committed"
        /\ enquiries[e].emailNotificationState # PENDING
        /\ Len(emailLogs[e]) >= 2
        /\ req[f].transaction = "rejected"
        /\ Len(req[f].attempts) >= 1
        /\ enquiries[f].emailNotificationState = PENDING

\* C13: whatever the dispatch of an intake produced (an outcome SENT, PARTIAL or
\* FAILED, or a throw), the Enquiry row created before it is still saved, the
\* action goes on to the transaction, and once the transaction has committed the
\* answer is ok with the result visible in emailNotificationState and
\* lastEmailError only.  The action answers with an error only when the
\* transaction itself was rejected.
C13_DegradedNotificationAnswersOk ==
    \A r \in ReqIds :
        (req[r].pc \in {"returned", "done"} /\ req[r].enquiryId # 0) =>
            LET row == enquiries[req[r].enquiryId]
                resolvedOutcome == ResolvedOutcome(req[r])
            IN  /\ row.exists
                /\ req[r].pc = "done" => req[r].transaction # "none"
                /\ req[r].response = "error" => req[r].transaction = "rejected"
                /\ req[r].transaction = "committed" =>
                      /\ req[r].response = "ok"
                      /\ row.emailNotificationState = resolvedOutcome.notificationState
                      /\ row.lastEmailError = resolvedOutcome.lastError

\* One intake whose dispatch threw and one whose dispatch was PARTIAL have both
\* answered ok.
C13_Witness ==
    \E r, q \in ReqIds :
        /\ req[r].thrown.thrown /\ req[r].response = "ok"
        /\ enquiries[req[r].enquiryId].emailNotificationState = FAILED
        /\ req[q].outcome.notificationState = PARTIAL /\ req[q].response = "ok"
        /\ enquiries[req[q].enquiryId].emailNotificationState = PARTIAL

\* The recipients of the dispatch of request r, resolved from its own Enquiry row
OwnRecipients(r) ==
    LET row == enquiries[req[r].enquiryId]
    IN  IntendedRecipients(env, [name |-> row.name, email |-> row.email])

\* Request r has entered the loop of its dispatch
Dispatching(r) ==
    /\ req[r].enquiryId # 0
    /\ req[r].pc \in {"awaiting", "resume", "returned", "done"}
    /\ ~req[r].thrown.thrown

\* C18: with dispatches of several intakes in progress at once, the sends and
\* the attempts of each are those of its own resolved recipients, in order, one
\* per recipient once it has returned; the rows persisted for an enquiry are the
\* attempts of the request that created it, under its own enquiry id.
C18_EpisodesDoNotMix ==
    /\ \A r \in ReqIds :
          Dispatching(r) =>
              LET own == OwnRecipients(r)
                  rq == req[r]
              IN  /\ rq.intendedRecipients = own
                  /\ Len(rq.calls) <= Len(own)
                  /\ \A i \in 1..Len(rq.calls) : rq.calls[i].to = own[i].email
                  /\ IF own = <<>>
                     THEN /\ Len(rq.attempts) = 1
                          /\ rq.attempts[1].recipientType = OTHER_RECIPIENT
                     ELSE /\ Len(rq.attempts) <= Len(own)
                          /\ rq.pc \in {"returned", "done"} => Len(rq.attempts) = Len(own)
                          /\ \A i \in 1..Len(rq.attempts) :
                                /\ rq.attempts[i].recipient = own[i].email
                                /\ rq.attempts[i].recipientType = own[i].recipientType
    /\ \A e \in ReqIds :
          /\ \A i \in 1..Len(emailLogs[e]) : emailLogs[e][i].enquiryId = e
          /\ emailLogs[e] # <<>> =>
                /\ req[e].enquiryId = e
                /\ req[e].transaction = "committed"
                /\ emailLogs[e] = LogRows(e, req[e].attempts)

\* Two intakes with different recipient lists are both in the middle of their
\* dispatch, each with an attempt recorded and a send in flight.
C18_Witness ==
    \E r, q \in ReqIds :
        /\ r # q
        /\ req[r].pc = "awaiting" /\ req[q].pc = "awaiting"
        /\ Len(req[r].attempts) >= 1 /\ Len(req[q].attempts) >= 1
        /\ Len(req[r].intendedRecipients) = 3
        /\ Len(req[q].intendedRecipients) = 2

(***************************************************************************)
(* Properties of the intake and the dashboard on one database              *)
(* (DashboardSpec).                                                        *)
(***************************************************************************)
\* The step is the commit of the notification transaction of intake r
PersistStep(r) == req[r].pc = "returned" /\ req'[r].transaction = "committed"

\* The step is the prisma.enquiry.update of dashboard request d
DashUpdateStep(d) == dash[d].pc = "found" /\ dash'[d].pc = "done"

\* C19: the rows of EnquiryEmailLog are append-only.  Every step of an intake or
\* of a dashboard status update leaves the rows an enquiry already has as they
\* are and in place, so their number never decreases; the commit of an intake
\* appends one row per attempt of its outcome behind them, and a dashboard
\* update appends nothing.
C19_LogRowsAppendOnly ==
    [][ /\ \A e \in ReqIds :
              /\ Len(emailLogs[e]) <= Len(emailLogs'[e])
              /\ SubSeq(emailLogs'[e], 1, Len(emailLogs[e])) = emailLogs[e]
        /\ \A r \in ReqIds :
              PersistStep(r) =>
                  emailLogs'[req[r].enquiryId]
                      = emailLogs[req[r].enquiryId]
                          \o LogRows(req[r].enquiryId, ResolvedOutcome(req[r]).attempts)
        /\ \A d \in DashIds : DashUpdateStep(d) => emailLogs' = emailLogs
      ]_vars

\* A dashboard update has been applied to an enquiry that has a log row.
C19_Witness ==
    \E d \in DashIds :
        /\ dash[d].response.status = 200
        /\ Len(emailLogs[dash[d].response.enquiry.id]) >= 1
        /\ enquiries[dash[d].response.enquiry.id].status = "CLOSED"

NotificationFields(row) ==
    <<row.emailNotificationState, row.lastEmailAttemptAt, row.lastEmailError>>
WorkflowFields(row) == <<row.status, row.statusNotes, row.statusUpdatedAt>>
ContactFields(row) == <<row.exists, row.shop, row.name, row.email>>

AllCallsSettled == \A i \in 1..Len(D.calls) : D.calls[i].result.settle # "pending"

\* C21: the summary is taken only after the join.  Whenever the outcome exists
\* the dispatch has returned, every resolved recipient has its attempt (the one
\* synthetic attempt when none was resolved), no transport call is pending, and
\* notificationState and lastError are summarizeAttempts of the returned
\* attempts; and no step changes the attempts once the outcome exists.
C21_SummaryAfterTheJoin ==
    /\ [](D.outcome.returned =>
            /\ Returned
            /\ Len(D.attempts) = (IF ResolvedCount = 0 THEN 1 ELSE ResolvedCount)
            /\ AllCallsSettled
            /\ LET summary == summarizeAttempts(D.attempts)
               IN  /\ D.outcome.notificationState = summary.notificationState
                   /\ D.outcome.lastError = summary.lastError)
    /\ [](Returned => D.outcome.returned)
    /\ [][D.outcome.returned => req'[1].attempts = D.attempts]_vars

\* Three sends of which only the last was rejected: the outcome is PARTIAL with
\* the last attempt's message, which a summary taken one attempt early misses.
C21_Witness ==
    /\ Returned /\ D.outcome.returned
    /\ Len(D.attempts) = 3
    /\ D.attempts[1].status = SUCCESS
    /\ D.attempts[2].status = SUCCESS
    /\ D.attempts[3].status = FAILURE
    /\ D.outcome.notificationState = PARTIAL
    /\ D.outcome.lastError = D.attempts[3].errorMessage

\* C23: every attempt is well-formed for its status.  A FAILURE attempt has an
\* errorMessage and no providerId; a SUCCESS attempt has no errorMessage and, as
\* providerId, the id of the response of its send, or null when the response has
\* none.  So a returned outcome has lastError null exactly when it is SENT.
C23_AttemptsWellFormed ==
    /\ \A i \in 1..Len(D.attempts) :
          LET a == D.attempts[i]
          IN  /\ a.status \in {SUCCESS, FAILURE}
              /\ a.status = FAILURE => (a.errorMessage # Null /\ a.providerId = Null)
              /\ a.status = SUCCESS =>
                    /\ a.errorMessage = Null
                    /\ i <= Len(D.calls)
                    /\ D.calls[i].result.settle = "resolve"
                    /\ a.providerId = D.calls[i].result.id
    /\ Returned => ((D.outcome.lastError = Null) <=> (D.outcome.notificationState = SENT))

\* A returned dispatch with a SUCCESS attempt that carries the provider's id, a
\* SUCCESS attempt whose response had no id, and a FAILURE attempt.
C23_Witness ==
    /\ Returned
    /\ Len(D.attempts) = 3
    /\ \E i, j, k \in 1..3 :
          /\ D.attempts[i].status = SUCCESS /\ D.attempts[i].providerId = "<id-1>"
          /\ D.attempts[j].status = SUCCESS /\ D.attempts[j].providerId = Null
          /\ D.attempts[k].status = FAILURE /\ D.attempts[k].errorMessage = "e2"
    /\ D.outcome.notificationState = PARTIAL
    /\ D.outcome.lastError = "e2"

\* The confirmation copy a recipient class is sent
CopyFor(recipientType) ==
    IF recipientType = STAFF THEN staffMessage
    ELSE IF recipientType = CUSTOMER THEN customerMessage
    ELSE Null

\* C24: the copy is chosen by the class of the recipient only.  The text and the
\* HTML body of every transport call render the enquiry with the staff copy when
\* the call is for a STAFF entry and with the customer copy when it is for the
\* CUSTOMER entry, also when the address is in both classes; and every call and
\* every attempt of the dispatch carries the one subject built from the enquiry.
C24_CopyByRecipientClass ==
    /\ \A i \in 1..Len(D.calls) :
          LET recipient == D.intendedRecipients[i]
              call == D.calls[i]
          IN  /\ recipient.recipientType \in {STAFF, CUSTOMER}
              /\ call.to = recipient.email
              /\ call.text = [format |-> "text", name |-> D.enquiry.name,
                              message |-> CopyFor(recipient.recipientType)]
              /\ call.html = [format |-> "html", name |-> D.enquiry.name,
                              message |-> CopyFor(recipient.recipientType)]
              /\ call.subject = <<"[Free Visual] ", D.enquiry.name>>
              /\ i <= Len(D.attempts) =>
                    D.attempts[i].recipientType = recipient.recipientType
    /\ \A i \in 1..Len(D.attempts) :
          D.attempts[i].subject = <<"[Free Visual] ", D.enquiry.name>>

\* The address a is a staff address and the customer's address: it was sent the
\* staff copy as STAFF and the customer copy as CUSTOMER, under one subject.
C24_Witness ==
    /\ Returned
    /\ \E i, j \in 1..Len(D.calls) :
          /\ D.calls[i].to = <<"a">> /\ D.calls[j].to = <<"a">>
          /\ D.attempts[i].recipientType = STAFF
          /\ D.attempts[j].recipientType = CUSTOMER
          /\ D.calls[i].text.message = staffMessage
          /\ D.calls[j].text.message = customerMessage
          /\ D.attempts[i].subject = D.attempts[j].subject

\* C25: the errorMessage recorded for a rejected send is the message the thrown
\* value carries (an Error, a string, or an object with a message field), and
\* the generic "Unknown error sending email" only for a value without a message.
C25_RecordedMessageIsTheThrownMessage ==
    \A i \in RejectedCalls :
        i <= Len(D.attempts) =>
            D.attempts[i].errorMessage =
                (IF D.calls[i].result.message # Null
                 THEN D.calls[i].result.message
                 ELSE "Unknown error sending email")

\* C26: a dispatch terminates (DispatchFairSpec).  Every call of
\* sendEnquiryEmails eventually returns an outcome; at no moment has it issued
\* more transport calls than recipients were resolved, each call to the recipient
\* at its own position; and once it has returned no transport call is pending
\* and no step changes the request any more.
C26_DispatchTerminates ==
    /\ (D.pc # "idle") ~> (Returned /\ D.outcome.returned)
    /\ [](D.pc # "idle" => OneCallPerRecipient)
    /\ [](Returned => AllCallsSettled)
    /\ [][Returned => req' = req]_vars

\* A dispatch has returned after three transport calls that all were rejected.
C26_Witness ==
    /\ Returned /\ D.outcome.returned
    /\ ResolvedCount = 3
    /\ Len(D.calls) = 3
    /\ \A i \in 1..3 : D.calls[i].result.settle = "reject"
    /\ D.outcome.notificationState = FAILED

(***************************************************************************)
(* Further properties of the intake (Spec).                                *)
(***************************************************************************)
\* The dispatch of request r has started: attemptedAt = new Date() has run
DispatchStarted(r) == req[r].enquiryId # 0 /\ req[r].pc # "created"

\* C22: the persisted lastEmailAttemptAt is the start time of the dispatch.  The
\* Date of a started dispatch was taken by that request when its enquiry row
\* existed and before it had issued a transport call or recorded an attempt; no
\* Date is taken before; and the row of a committed intake holds that same Date,
\* whatever the sends did afterwards.
C22_AttemptTimeIsDispatchStart ==
    \A r \in ReqIds :
        /\ DispatchStarted(r) =>
              /\ enquiries[req[r].enquiryId].exists
              /\ req[r].attemptedAt =
                    [set |-> TRUE, request |-> r, calls |-> 0, attempts |-> 0]
        /\ ~DispatchStarted(r) => ~req[r].attemptedAt.set
        /\ req[r].transaction = "committed" =>
              enquiries[req[r].enquiryId].lastEmailAttemptAt = req[r].attemptedAt
        /\ (req[r].enquiryId # 0 /\ req[r].transaction # "committed") =>
              ~enquiries[req[r].enquiryId].lastEmailAttemptAt.set

\* A committed intake whose three sends all settled, one of them rejected: the
\* row holds the Date taken before the first of them.
C22_Witness ==
    \E r \in ReqIds :
        /\ req[r].transaction = "committed"
        /\ Len(req[r].calls) = 3
        /\ \E i \in 1..3 : req[r].calls[i].result.settle = "reject"
        /\ enquiries[req[r].enquiryId].emailNotificationState = PARTIAL
        /\ enquiries[req[r].enquiryId].lastEmailAttemptAt.set
        /\ enquiries[req[r].enquiryId].lastEmailAttemptAt.calls = 0

\* C27: a dispatch that throws is persisted as a failure.  For every intake whose
\* sendEnquiryEmails threw, the action goes on to the persistence transaction
\* and does not end without having issued it; when the transaction has committed
\* the enquiry is FAILED, its lastEmailError is the message of the thrown Error,
\* or the fixed text for a thrown value that is not an Error, lastEmailAttemptAt
\* is set, no log row was inserted and the answer is ok; the enquiry is PENDING
\* after the action has ended only if the database rejected the transaction.
C27_ThrownDispatchIsPersistedAsFailed ==
    \A r \in ReqIds :
        req[r].thrown.thrown =>
            LET row == enquiries[req[r].enquiryId]
            IN  /\ req[r].pc \in {"returned", "done"}
                /\ req[r].pc = "done" => req[r].transaction \in {"committed", "rejected"}
                /\ req[r].transaction = "committed" =>
                      /\ row.emailNotificationState = FAILED
                      /\ row.lastEmailError =
                            (IF req[r].thrown.isError
                             THEN req[r].thrown.message
                             ELSE "Unknown error sending enquiry notification email")
                      /\ row.lastEmailAttemptAt.set
                      /\ emailLogs[req[r].enquiryId] = <<>>
                      /\ req[r].response = "ok"
                /\ (req[r].pc = "done" /\ row.emailNotificationState = PENDING) =>
                      req[r].transaction = "rejected"

\* Two intakes whose dispatch threw have committed: one threw an Error, the
\* other a value that is not an Error.
C27_Witness ==
    \E r, q \in ReqIds :
        /\ req[r].thrown.thrown /\ req[r].thrown.isError
        /\ req[q].thrown.thrown /\ ~req[q].thrown.isError
        /\ req[r].transaction = "committed" /\ req[q].transaction = "committed"
        /\ enquiries[req[r].enquiryId].emailNotificationState = FAILED
        /\ enquiries[req[r].enquiryId].lastEmailError = "e0"
        /\ enquiries[req[q].enquiryId].lastEmailError =
              "Unknown error sending enquiry notification email"
        /\ emailLogs[req[r].enquiryId] = <<>>

(***************************************************************************)
(* Further properties of the intake with the dashboard (DashboardSpec).    *)
(***************************************************************************)
\* The notification transaction of the intake that created enquiry e committed
IntakeCommitted(e) ==
    \E r \in ReqIds : req[r].enquiryId = e /\ req[r].transaction = "committed"

\* C28: the notification state moves one way.  An enquiry is PENDING with no
\* lastEmailAttemptAt from its creation until the transaction of its intake has
\* committed, and from then on SENT, PARTIAL or FAILED with lastEmailAttemptAt
\* set; no step of any request changes the three notification fields of an
\* enquiry that has left PENDING, and the only step that changes the state of an
\* existing enquiry is the commit of its own intake.
C28_NotificationStateOneWay ==
    /\ [](\A e \in ReqIds :
            enquiries[e].exists =>
                IF IntakeCommitted(e)
                THEN /\ enquiries[e].emailNotificationState \in {SENT, PARTIAL, FAILED}
                     /\ enquiries[e].lastEmailAttemptAt.set
                ELSE /\ enquiries[e].emailNotificationState = PENDING
                     /\ ~enquiries[e].lastEmailAttemptAt.set)
    /\ [][\A e \in ReqIds :
            /\ (enquiries[e].exists /\ enquiries[e].emailNotificationState # PENDING) =>
                  NotificationFields(enquiries'[e]) = NotificationFields(enquiries[e])
            /\ (enquiries[e].exists
                    /\ enquiries'[e].emailNotificationState
                          # enquiries[e].emailNotificationState) =>
                  \E r \in ReqIds : req[r].enquiryId = e /\ PersistStep(r)
       ]_vars

\* An enquiry whose notification failed has then had its status and notes set
\* from the dashboard: it is still FAILED with its error and its attempt time.
C28_Witness ==
    \E e \in ReqIds, d \in DashIds :
        /\ IntakeCommitted(e)
        /\ dash[d].response.status = 200
        /\ dash[d].response.enquiry.id = e
        /\ enquiries[e].statusNotes = "n"
        /\ enquiries[e].emailNotificationState = FAILED
        /\ enquiries[e].lastEmailError = "e1"
        /\ enquiries[e].lastEmailAttemptAt.set

\* The form of a dashboard request names a workflow status once trimmed and
\* upper-cased
NamesWorkflowStatus(statusRaw) ==
    statusRaw \in {"new", " closed "}

\* The request may change the enquiry it names: the intent is update-status, the
\* id is not empty, the status is a workflow status, and the enquiry exists and
\* belongs to the shop of the session
MayUpdate(shop, intent, enquiryId, statusRaw) ==
    /\ intent = "update-status"
    /\ enquiryId # 0
    /\ NamesWorkflowStatus(statusRaw)
    /\ enquiries[enquiryId].exists
    /\ enquiries[enquiryId].shop = shop

\* C29: the dashboard action changes an enquiry only for a valid request of the
\* owning shop.  In every state, a request with any form and session is answered
\* 400, or 404 when the enquiry it names is missing or of another shop, unless
\* it may update, and then it goes on to the update.  The arrival of a request
\* changes no enquiry and goes on only with an existing enquiry of the session's
\* shop and a workflow status; the update changes only the enquiry it names, of
\* the session's own shop, and answers 200; a request answered with an error
\* does nothing more; and no step changes the workflow fields of an existing
\* enquiry but the update of a request of the shop the enquiry belongs to.
C29_OnlyTheOwningShopUpdates ==
    /\ [](\A shop \in DashShops, intent \in Intents, enquiryId \in EnquiryIdInputs,
             statusRaw \in StatusInputs, notesRaw \in NotesInputs :
             LET answered ==
                     CheckedRequest(IdleDash, shop, intent, enquiryId, statusRaw, notesRaw)
             IN  IF MayUpdate(shop, intent, enquiryId, statusRaw)
                 THEN /\ answered.pc = "found"
                      /\ answered.response = NoResponse
                 ELSE /\ answered.pc = "done"
                      /\ answered.response.ok = FALSE
                      /\ answered.response.status =
                            (IF /\ intent = "update-status"
                                /\ enquiryId # 0
                                /\ NamesWorkflowStatus(statusRaw)
                             THEN 404 ELSE 400))
    /\ [][ /\ \A d \in DashIds :
                 (dash[d].pc = "idle" /\ dash'[d].pc # "idle") =>
                     /\ enquiries' = enquiries
                     /\ IF dash'[d].pc = "found"
                        THEN /\ dash'[d].enquiryId # 0
                             /\ enquiries[dash'[d].enquiryId].exists
                             /\ enquiries[dash'[d].enquiryId].shop = dash'[d].shop
                             /\ dash'[d].statusValue \in
                                   {"NEW", "IN_PROGRESS", "AWAITING_CUSTOMER",
                                    "QUOTE_SENT", "COMPLETED", "CLOSED"}
                        ELSE /\ dash'[d].pc = "done"
                             /\ dash'[d].response.status \in {400, 404}
           /\ \A d \in DashIds :
                 DashUpdateStep(d) =>
                     /\ enquiries[dash[d].enquiryId].exists
                     /\ enquiries[dash[d].enquiryId].shop = dash[d].shop
                     /\ dash'[d].response.status = 200
                     /\ \A e \in ReqIds :
                           e # dash[d].enquiryId => enquiries'[e] = enquiries[e]
           /\ \A d \in DashIds :
                 (dash[d].pc = "done" /\ dash[d].response.status # 200) =>
                     dash'[d] = dash[d]
           /\ \A e \in ReqIds :
                 (enquiries[e].exists
                     /\ WorkflowFields(enquiries'[e]) # WorkflowFields(enquiries[e])) =>
                     \E d \in DashIds :
                         /\ DashUpdateStep(d)
                         /\ dash[d].enquiryId = e
                         /\ dash[d].shop = enquiries[e].shop
       ]_vars

\* A request of shop s2 named an existing enquiry of shop s1 and was answered
\* 404; the enquiry is as the intake created it.
C29_Witness ==
    \E d \in DashIds, e \in ReqIds :
        /\ dash[d].pc = "done"
        /\ dash[d].shop = "s2"
        /\ dash[d].enquiryId = e
        /\ dash[d].response.status = 404
        /\ enquiries[e].exists /\ enquiries[e].shop = "s1"
        /\ enquiries[e].status = "NEW"
        /\ enquiries[e].statusNotes = Null
        /\ enquiries[e].statusUpdatedAt = CreatedAt(e)

(***************************************************************************)
(* Properties of dashboard updates of one enquiry (UpdateSpec).            *)
(***************************************************************************)
\* C30: a dashboard update refreshes statusUpdatedAt if and only if the status
\* it writes differs from the status stored when it writes.  Every update step
\* writes its status and its notes and answers 200; it sets statusUpdatedAt to
\* its own new Date() when the stored status was another one, and leaves
\* statusUpdatedAt as it was when the stored status was the same.
C30_RefreshIffStatusDiffers ==
    [][\A d \in DashIds :
          DashUpdateStep(d) =>
              LET id == dash[d].enquiryId
                  stored == enquiries[id]
                  written == enquiries'[id]
              IN  /\ written.status = dash[d].statusValue
                  /\ written.statusNotes = dash[d].statusNotes
                  /\ dash'[d].response.status = 200
                  /\ written.statusUpdatedAt =
                        (IF dash[d].statusValue # stored.status
                         THEN UpdatedAt(d)
                         ELSE stored.statusUpdatedAt)
      ]_vars

====
